---- MODULE Spec2Model ----
(***************************************************************************)
(* A model of build-your-own-sqlite-rust: the varint codec, the record    *)
(* decoder, the page decoder, the pager, the catalog and the executor.    *)
(*                                                                         *)
(* Four specifications share the variables:                               *)
(*   SpecVarint  utils.rs read_varint on bounded byte strings             *)
(*   SpecRecord  record.rs RecordHeader::parse / Record::parse on bytes   *)
(*   SpecPager   db.rs Pager::read_page over a bounded family of files    *)
(*   Spec        db.rs Db::execute_sql over a bounded family of files     *)
(***************************************************************************)
EXTENDS Integers, Sequences, FiniteSets, TLC

VARIABLES
    fin,      \* input of the pure function under check (SpecVarint, SpecRecord)
    fout,     \* its result, None before it ran
    file,     \* the database file: page number -> raw page (Spec)
    layout,   \* how the file was built (ghost: the rows and the tree shapes)
    db,       \* the Db handle: [pages, io, table_schemas, index_schemas]
    returned, \* ghost: page number -> the pages read_page has returned for it
    alive,    \* FALSE once a panic has aborted the process
    last      \* ghost: the last call made on the handle and its outcome

vars == <<fin, fout, file, layout, db, returned, alive, last>>

-----------------------------------------------------------------------------
(* Small helpers                                                           *)

Min(a, b) == IF a < b THEN a ELSE b
Max(a, b) == IF a > b THEN a ELSE b

Range(s) == {s[i] : i \in 1..Len(s)}

\* n copies of x
\* TLC evaluates a function constructor element by element, on every
\* application; Vec(f) is the sequence f with its elements evaluated.
Vec(f) == f \o <<>>

\* `let x = ...;` followed by the code F that uses x; x is evaluated once
Bind(x, F(_)) == CHOOSE r \in {F(v) : v \in {x}} : TRUE

Rep(x, n) == Vec([i \in 1..n |-> x])

RECURSIVE SumSeq(_)
SumSeq(s) == IF s = <<>> THEN 0 ELSE Head(s) + SumSeq(Tail(s))

\* The three ways a Rust call ends: a value, an Err value, a panic.
None == [kind |-> "None"]
Ok(v)  == [kind |-> "Ok", v |-> v]
Err(m) == [kind |-> "Err", msg |-> m]
Panic(m) == [kind |-> "Panic", msg |-> m]

-----------------------------------------------------------------------------
(* u64 arithmetic.  TLC's integers are 32 bits wide, so a u64 is a         *)
(* sequence of 64 bits, most significant first.                            *)

U64Width == 64

Zero64 == Rep(0, U64Width)

\* res <<= k on a u64: the k high bits fall off.
Shl64(b, k) == SubSeq(b, k + 1, U64Width) \o Rep(0, k)

Or64(a, b) == Vec([j \in 1..U64Width |-> Max(a[j], b[j])])

\* The w low bits of the natural number n, most significant first.
NatBits(n, w) == Vec([i \in 1..w |-> (n \div 2^(w - i)) % 2])

\* `byte as u64`
ByteAsU64(byte) == Rep(0, U64Width - 8) \o NatBits(byte, 8)

\* The natural number whose bits are b[1..n], most significant first.
RECURSIVE BitsNatUpTo(_, _)
BitsNatUpTo(b, n) == IF n = 0 THEN 0 ELSE 2 * BitsNatUpTo(b, n - 1) + b[n]
BitsNat(b) == BitsNatUpTo(b, Len(b))

\* A u64 that fits TLC's integers.
SmallBits == 24
IsSmall64(b) == \A j \in 1..(U64Width - SmallBits) : b[j] = 0
\* `x as usize` where the model can hold it; anything larger is only ever
\* used as a slice bound, where it is past the end of every buffer.
HugeNat == 1073741824
U64AsNat(b) == IF IsSmall64(b) THEN BitsNat(SubSeq(b, U64Width - SmallBits + 1, U64Width)) ELSE HugeNat

NatAsU64(n) == Rep(0, U64Width - SmallBits) \o NatBits(n, SmallBits)

-----------------------------------------------------------------------------
(* utils.rs: read_varint                                                   *)

\* The first loop: the bytes kept, with the continuation bit masked off on
\* bytes 0..7 and the ninth byte (i = 8) kept whole.
RECURSIVE read_varint_trimMasked(_, _, _, _)
read_varint_trimMasked(bytes, i, continue_bit, trimmed) ==
    IF i >= Len(bytes) \/ ~continue_bit THEN trimmed
    ELSE LET byte == bytes[i + 1] IN
         read_varint_trimMasked(bytes, i + 1, byte >= 128, Append(trimmed, byte % 128))

RECURSIVE read_varint_trim(_, _, _, _)
read_varint_trim(bytes, i, continue_bit, trimmed) ==
    IF i >= Len(bytes) \/ ~continue_bit THEN trimmed
    ELSE LET byte == bytes[i + 1] IN
         IF i = 8 THEN Append(trimmed, byte)
         ELSE read_varint_trim(bytes, i + 1, byte >= 128, Append(trimmed, byte % 128))

\* The second loop: fold the kept bytes into a u64.
RECURSIVE read_varint_fold(_, _, _)
read_varint_fold(trimmed, i, res) ==
    IF i >= Len(trimmed) THEN res
    ELSE IF i = 8 THEN Or64(Shl64(res, 8), ByteAsU64(trimmed[i + 1]))
    ELSE read_varint_fold(trimmed, i + 1, Or64(Shl64(res, 7), ByteAsU64(trimmed[i + 1])))

\* read_varint(bytes) = (bytes consumed, value); it has no failing path.
read_varint(bytes) ==
    LET trimmed == read_varint_trim(bytes, 0, TRUE, <<>>) IN
    [n |-> Len(trimmed), value |-> read_varint_fold(trimmed, 0, Zero64)]

-----------------------------------------------------------------------------
(* The conforming varint encoding of the format (spec section 3), used to  *)
(* build inputs: n bytes, n in 1..9.                                       *)

\* The smallest number of bytes that can carry v.
LeadingZeros(b) ==
    IF \A j \in 1..Len(b) : b[j] = 0 THEN Len(b)
    ELSE (CHOOSE j \in 1..Len(b) : b[j] = 1 /\ \A i \in 1..(j - 1) : b[i] = 0) - 1

VarintMinLen(v) ==
    LET sig == U64Width - LeadingZeros(v) IN
    IF sig > 56 THEN 9 ELSE IF sig = 0 THEN 1 ELSE (sig + 6) \div 7

\* Bytes j..n of the n-byte encoding of v, n < 9: seven bits each, the
\* continuation flag on all but the last.
RECURSIVE VarintGroups(_, _, _)
VarintGroups(v, j, n) ==
    IF j > n THEN <<>>
    ELSE LET lo == U64Width - 7 * (n - j + 1) + 1 IN
         <<(IF j = n THEN 0 ELSE 128) + BitsNat(SubSeq(v, lo, lo + 6))>>
             \o VarintGroups(v, j + 1, n)

\* Bytes j..8 of the 9-byte encoding: the 56 high bits, flag always set.
RECURSIVE VarintHigh(_, _)
VarintHigh(v, j) ==
    IF j > 8 THEN <<>>
    ELSE <<128 + BitsNat(SubSeq(v, 7 * (j - 1) + 1, 7 * j))>> \o VarintHigh(v, j + 1)

\* The n-byte encoding of v (n >= VarintMinLen(v)).
VarintEncode(v, n) ==
    IF n = 9 THEN VarintHigh(v, 1) \o <<BitsNat(SubSeq(v, 57, 64))>>
    ELSE VarintGroups(v, 1, n)

-----------------------------------------------------------------------------
(* SpecVarint: read_varint applied to bounded inputs                       *)

\* Values with k low bits set, a single bit set, and two mixed patterns.
Ones64(k) == Rep(0, U64Width - k) \o Rep(1, k)
Bit64(k) == Rep(0, U64Width - k - 1) \o <<1>> \o Rep(0, k)
Alt64(k) == Vec([j \in 1..U64Width |-> IF j <= U64Width - k THEN 0 ELSE j % 2])

VarintValues ==
    {Ones64(k) : k \in 0..U64Width} \cup {Bit64(k) : k \in 0..(U64Width - 1)}
        \cup {Alt64(k) : k \in 1..U64Width}

\* The bytes that may follow the encoding in the buffer.
MaxTail == 2
TailBytes == {0, 129, 255}
VarintTails == {<<>>} \cup UNION {[1..n -> TailBytes] : n \in 1..MaxTail}

InitVarint ==
    /\ \E v \in VarintValues : \E n \in 1..9 : \E t \in VarintTails :
          /\ n >= VarintMinLen(v)
          /\ fin = [fn |-> "read_varint", v |-> v, e |-> VarintEncode(v, n), tail |-> t]
    /\ fout = None
    /\ file = <<>> /\ layout = None /\ db = None /\ returned = <<>>
    /\ alive = TRUE /\ last = None

CallReadVarint ==
    /\ fin.fn = "read_varint" /\ fout = None
    /\ fout' = Ok(read_varint(fin.e \o fin.tail))
    /\ UNCHANGED <<fin, file, layout, db, returned, alive, last>>

NextVarint == CallReadVarint

SpecVarint == InitVarint /\ [][NextVarint]_vars

-----------------------------------------------------------------------------
(* record.rs: the serial-type match of RecordHeader::parse                 *)

\* (field_type, field_size) of serial-type code n; `odd` is n % 2 = 1.
\* The last arm of the match is todo!(), a panic.
SerialField(n, odd) ==
    CASE n = 0 -> Ok([field_type |-> "Null", field_size |-> 0])
      [] n = 1 -> Ok([field_type |-> "I8", field_size |-> 1])
      [] n = 2 -> Ok([field_type |-> "I16", field_size |-> 2])
      [] n = 3 -> Ok([field_type |-> "I24", field_size |-> 3])
      [] n = 4 -> Ok([field_type |-> "I32", field_size |-> 4])
      [] n = 5 -> Ok([field_type |-> "I48", field_size |-> 6])
      [] n = 6 -> Ok([field_type |-> "I64", field_size |-> 8])
      [] n = 7 -> Ok([field_type |-> "Float", field_size |-> 8])
      [] n = 8 -> Ok([field_type |-> "Zero", field_size |-> 0])
      [] n = 9 -> Ok([field_type |-> "One", field_size |-> 0])
      [] n > 12 /\ ~odd -> Ok([field_type |-> "Blob", field_size |-> (n - 12) \div 2])
      [] n >= 13 /\ odd -> Ok([field_type |-> "String", field_size |-> (n - 13) \div 2])
      [] OTHER -> Panic("unsupported field type")

\* &buf[from..to]: a slice panics when from > to or to > len.
SliceOk(buf, from, to) == from <= to /\ to <= Len(buf)
Slice(buf, from, to) == SubSeq(buf, from + 1, to)

\* The while loop of RecordHeader::parse.
RECURSIVE RecordHeader_loop(_, _, _, _)
RecordHeader_loop(buffer, current_offset, header_length, fields) ==
    IF ~(buffer # <<>> /\ current_offset < header_length)
    THEN Ok([fields |-> fields, header_length |-> current_offset])
    ELSE LET rv == read_varint(buffer)
             f  == SerialField(U64AsNat(rv.value), rv.value[U64Width] = 1)
         IN IF f.kind # "Ok" THEN f
            ELSE RecordHeader_loop(Slice(buffer, rv.n, Len(buffer)),
                                   current_offset + rv.n, header_length,
                                   Append(fields, f.v))

\* RecordHeader::parse(payload) = (RecordHeader { fields }, current_offset)
RecordHeader_parse(payload) ==
    LET rv == read_varint(payload)
        header_length == U64AsNat(rv.value)
    IN IF ~SliceOk(payload, rv.n, header_length) THEN Panic("slice index")
       ELSE RecordHeader_loop(Slice(payload, rv.n, header_length), rv.n,
                              header_length, <<>>)

-----------------------------------------------------------------------------
(* record.rs: the fixed-width readers.  An i64 is its 64 bits (two's       *)
(* complement); `as i64` of a narrower signed integer repeats its sign bit *)

RECURSIVE BytesBits(_)
BytesBits(bytes) ==
    IF bytes = <<>> THEN <<>> ELSE NatBits(Head(bytes), 8) \o BytesBits(Tail(bytes))

\* iN::from_be_bytes(bytes) as i64
SignExtend64(bits) == Rep(bits[1], U64Width - Len(bits)) \o bits

I64Val(bits) == [k |-> "I64", bits |-> bits]

read_i8_at(input, offset) ==
    IF offset >= Len(input) THEN Panic("index out of bounds")
    ELSE Ok(SignExtend64(NatBits(input[offset + 1], 8)))

read_i16_at(input, offset) ==
    IF ~SliceOk(input, offset, offset + 2) THEN Panic("slice index")
    ELSE Ok(SignExtend64(BytesBits(Slice(input, offset, offset + 2))))

\* i32::from_be_bytes([0, b0, b1, b2]): the top byte is always 0
read_i24_at(input, offset) ==
    IF offset + 2 >= Len(input) THEN Panic("index out of bounds")
    ELSE Ok(SignExtend64(BytesBits(<<0>> \o Slice(input, offset, offset + 3))))

read_i32_at(input, offset) ==
    IF ~SliceOk(input, offset, offset + 4) THEN Panic("slice index")
    ELSE Ok(SignExtend64(BytesBits(Slice(input, offset, offset + 4))))

\* input[offset..offset + 6].try_into().unwrap() into [u8; 8]: the slice
\* has 6 bytes, so try_into is Err and unwrap panics.
read_i48_at(input, offset) ==
    IF ~SliceOk(input, offset, offset + 6) THEN Panic("slice index")
    ELSE Panic("TryFromSliceError")

read_i64_at(input, offset) ==
    IF ~SliceOk(input, offset, offset + 8) THEN Panic("slice index")
    ELSE Ok(BytesBits(Slice(input, offset, offset + 8)))

read_f64_at(input, offset) == read_i64_at(input, offset)

\* String::from_utf8: the inputs of this model hold ASCII bytes and 0xFF,
\* which no UTF-8 string contains.
IsUtf8(bytes) == \A i \in 1..Len(bytes) : bytes[i] < 128

\* The match of Record::parse on field.field_type, at body offset `offset`.
Record_value(payload, field, offset, row_id) ==
    LET ft == field.field_type
        int(r) == IF r.kind = "Ok" THEN Ok(I64Val(r.v)) ELSE r
    IN CASE ft = "Null" -> Ok(I64Val(row_id))
         [] ft = "I8"   -> int(read_i8_at(payload, offset))
         [] ft = "I16"  -> int(read_i16_at(payload, offset))
         [] ft = "I24"  -> int(read_i24_at(payload, offset))
         [] ft = "I32"  -> int(read_i32_at(payload, offset))
         [] ft = "I48"  -> int(read_i48_at(payload, offset))
         [] ft = "I64"  -> int(read_i64_at(payload, offset))
         [] ft = "Float" ->
              LET r == read_f64_at(payload, offset) IN
              IF r.kind = "Ok" THEN Ok([k |-> "Float", bits |-> r.v]) ELSE r
         [] ft = "Zero" -> Ok(I64Val(Zero64))
         [] ft = "One"  -> Ok(I64Val(NatAsU64(1)))
         [] ft = "String" ->
              IF ~SliceOk(payload, offset, offset + field.field_size)
              THEN Panic("slice index")
              ELSE LET b == Slice(payload, offset, offset + field.field_size) IN
                   IF IsUtf8(b) THEN Ok([k |-> "String", s |-> b])
                   ELSE Err("invalid utf-8")
         [] ft = "Blob" ->
              IF ~SliceOk(payload, offset, offset + field.field_size)
              THEN Panic("slice index")
              ELSE Ok([k |-> "Blob", b |-> Slice(payload, offset, offset + field.field_size)])
         [] OTHER -> Ok([k |-> "Null"])

\* The for loop of Record::parse.  Each body entry keeps, beside the value,
\* the local `offset` it was read at (ghost).
RECURSIVE Record_loop(_, _, _, _, _, _)
Record_loop(payload, fields, i, offset, row_id, body) ==
    IF i > Len(fields) THEN Ok(body)
    ELSE LET r == Record_value(payload, fields[i], offset, row_id) IN
         IF r.kind # "Ok" THEN r
         ELSE Record_loop(payload, fields, i + 1, offset + fields[i].field_size,
                          row_id, Append(body, [value |-> r.v, offset |-> offset]))

\* Record::parse(payload, row_id)
Record_parse(payload, row_id) ==
    LET h == RecordHeader_parse(payload) IN
    IF h.kind # "Ok" THEN h
    ELSE LET b == Record_loop(payload, h.v.fields, 1, h.v.header_length, row_id, <<>>) IN
         IF b.kind # "Ok" THEN b
         ELSE Ok([header |-> h.v.fields, body |-> b.v])

-----------------------------------------------------------------------------
(* SpecRecord: RecordHeader::parse and Record::parse applied to records     *)
(* laid out as the format says (spec section 3): a header of varints, the  *)
(* header length first, then the column bodies in order.                   *)

\* The table of spec section 3: the body width of a serial-type code.  The
\* reserved codes 10 and 11 carry no body.
SpecWidth(code) ==
    CASE code \in {0, 8, 9, 10, 11} -> 0
      [] code \in 1..4 -> code
      [] code = 5 -> 6
      [] code \in {6, 7} -> 8
      [] code >= 12 /\ code % 2 = 0 -> (code - 12) \div 2
      [] OTHER -> (code - 13) \div 2

\* The kind the table gives a code, in the decoder's names.
SpecKind(code) ==
    CASE code = 0 -> "Null"
      [] code = 1 -> "I8"
      [] code = 2 -> "I16"
      [] code = 3 -> "I24"
      [] code = 4 -> "I32"
      [] code = 5 -> "I48"
      [] code = 6 -> "I64"
      [] code = 7 -> "Float"
      [] code = 8 -> "Zero"
      [] code = 9 -> "One"
      [] code \in {10, 11} -> "Reserved"
      [] code >= 12 /\ code % 2 = 0 -> "Blob"
      [] OTHER -> "String"

MaxSerialCode == 15
LongCode == 128
MaxCols == 2
SerialCodes == (0..MaxSerialCode) \cup {LongCode, LongCode + 1}
ReservedCodes == {10, 11}

\* First byte of every column body; the other bytes are AsciiFill.
BodyBytes == {0, 65, 128, 255}
AsciiFill == 65

MinVarint(n) == VarintEncode(NatAsU64(n), VarintMinLen(NatAsU64(n)))

RECURSIVE ConcatAll(_)
ConcatAll(ss) == IF ss = <<>> THEN <<>> ELSE Head(ss) \o ConcatAll(Tail(ss))

ColumnBody(code, hi) ==
    IF SpecWidth(code) = 0 THEN <<>> ELSE <<hi>> \o Rep(AsciiFill, SpecWidth(code) - 1)

\* The payload of a record with these serial types.
BuildRecord(codes, hi) ==
    LET types == ConcatAll([i \in 1..Len(codes) |-> MinVarint(codes[i])])
    IN MinVarint(1 + Len(types)) \o types
          \o ConcatAll([i \in 1..Len(codes) |-> ColumnBody(codes[i], hi)])

\* The header length H of that payload.
HeaderLen(codes) == 1 + SumSeq([i \in 1..Len(codes) |-> Len(MinVarint(codes[i]))])

RecordRowIds == {0, 7}

CodeLists == UNION {[1..n -> SerialCodes] : n \in 1..MaxCols}

InitRecord ==
    /\ \E codes \in CodeLists :
          \/ fin = [fn |-> "RecordHeader::parse", codes |-> codes, hi |-> AsciiFill,
                    payload |-> BuildRecord(codes, AsciiFill), row_id |-> 0]
          \/ \E hi \in BodyBytes : \E r \in RecordRowIds :
                fin = [fn |-> "Record::parse", codes |-> codes, hi |-> hi,
                       payload |-> BuildRecord(codes, hi), row_id |-> r]
    /\ fout = None
    /\ file = <<>> /\ layout = None /\ db = None /\ returned = <<>>
    /\ alive = TRUE /\ last = None

CallRecordHeaderParse ==
    /\ fin.fn = "RecordHeader::parse" /\ fout = None
    /\ fout' = RecordHeader_parse(fin.payload)
    /\ UNCHANGED <<fin, file, layout, db, returned, alive, last>>

CallRecordParse ==
    /\ fin.fn = "Record::parse" /\ fout = None
    /\ fout' = Record_parse(fin.payload, NatAsU64(fin.row_id))
    /\ UNCHANGED <<fin, file, layout, db, returned, alive, last>>

NextRecord == CallRecordHeaderParse \/ CallRecordParse

SpecRecord == InitRecord /\ [][NextRecord]_vars

-----------------------------------------------------------------------------
(* Strings.  A Rust String is a TLA+ string; the characters the model uses *)
(* are listed in byte order, so that comparisons are the byte-wise ones.   *)

AsciiChars == " \"'()*,.0123456789;=ABCDEFGHIJKLMNOPQRSTUVWXYZ_abcdefghijklmnopqrstuvwxyz"
UpperChars == "ABCDEFGHIJKLMNOPQRSTUVWXYZ"
LowerChars == "abcdefghijklmnopqrstuvwxyz"
DigitChars == "0123456789"

Char(s, i) == SubSeq(s, i, i)
CharIn(c, set) == \E i \in 1..Len(set) : Char(set, i) = c
CharPos(c, set) == CHOOSE i \in 1..Len(set) : Char(set, i) = c
CharOrd(c) == CharPos(c, AsciiChars)

SetMin(S) == CHOOSE x \in S : \A y \in S : x <= y
SetMax(S) == CHOOSE x \in S : \A y \in S : x >= y

\* a < b for Rust strings (lexicographic on bytes)
StrLt(a, b) ==
    LET diff == {i \in 1..Min(Len(a), Len(b)) : Char(a, i) # Char(b, i)} IN
    IF diff = {} THEN Len(a) < Len(b)
    ELSE CharOrd(Char(a, SetMin(diff))) < CharOrd(Char(b, SetMin(diff)))

\* i64 to_string / format!("{n}")
RECURSIVE NatToString(_)
NatToString(n) ==
    IF n < 10 THEN Char(DigitChars, n + 1)
    ELSE NatToString(n \div 10) \o Char(DigitChars, (n % 10) + 1)
IntToString(i) == IF i < 0 THEN "-" \o NatToString(0 - i) ELSE NatToString(i)

-----------------------------------------------------------------------------
(* record.rs: Value, at the level of the database model.  An I64 holds a   *)
(* TLC integer; the files of the model hold small integers only.           *)

VNull == [k |-> "Null"]
VI64(i) == [k |-> "I64", i |-> i]
VString(s) == [k |-> "String", s |-> s]
VBlob(b) == [k |-> "Blob", b |-> b]

\* impl ToString for Value (no Float and no non-UTF-8 Blob in the model's files)
Value_to_string(v) ==
    CASE v.k = "Null" -> "NULL"
      [] v.k = "I64" -> IntToString(v.i)
      [] v.k = "String" -> v.s
      [] OTHER -> v.b

\* #[derive(PartialEq, PartialOrd)]: variants compare by their position in
\* the enum, equal variants by their payload.
Value_rank(v) ==
    CASE v.k = "Null" -> 0 [] v.k = "I64" -> 1 [] v.k = "Float" -> 2
      [] v.k = "String" -> 3 [] OTHER -> 4

Value_eq(a, b) == a = b

Value_gt(a, b) ==
    IF Value_rank(a) # Value_rank(b) THEN Value_rank(a) > Value_rank(b)
    ELSE CASE a.k = "I64" -> a.i > b.i
           [] a.k = "String" -> StrLt(b.s, a.s)
           [] a.k = "Blob" -> StrLt(b.b, a.b)
           [] OTHER -> FALSE

Value_ge(a, b) == Value_gt(a, b) \/ Value_eq(a, b)

-----------------------------------------------------------------------------
(* The file.  A raw page is what the page decoder reads from the buffer:   *)
(*   [tag, right, cells], a raw cell [ptr_ok, left, row_id, cols] and a    *)
(*   raw column [st, val]: the serial type in the record header and the    *)
(*   body it encodes.  ptr_ok is FALSE when the cell pointer, or the cell  *)
(*   it points to, runs past the end of the page buffer.                   *)

HEADER_SIZE == 100
TABLE_LEAF_PAGE_ID == 13
TABLE_INTERIOR_PAGE_ID == 5
INDEX_LEAF_PAGE_ID == 10
INDEX_INTERIOR_PAGE_ID == 2
PAGE_INTERIOR_HEADER_SIZE == 12
PAGE_RIGHT_MOST_POINTER_OFFSET == 8

\* The first byte of the file, 'S' of "SQLite format 3\0".
MagicFirstByte == 83

\* A text body that is not UTF-8.
BadUtf8 == "<0xFF>"

\* Record::parse on a raw record.  RecordHeader::parse runs over every
\* serial type first, then the bodies are decoded in order.
Record_decode_value(col, row_id) ==
    LET ft == SerialField(col.st, col.st % 2 = 1).v.field_type IN
    CASE ft = "Null" -> Ok(VI64(row_id))
      [] ft \in {"I8", "I16", "I32", "I64"} -> Ok(VI64(col.val))
      [] ft = "I24" -> Ok(VI64(IF col.val < 0 THEN col.val + 2^24 ELSE col.val))
      [] ft = "I48" -> Panic("TryFromSliceError")
      [] ft = "Float" -> Ok([k |-> "Float", f |-> col.val])
      [] ft = "Zero" -> Ok(VI64(0))
      [] ft = "One" -> Ok(VI64(1))
      [] ft = "String" -> IF col.val = BadUtf8 THEN Err("invalid utf-8") ELSE Ok(VString(col.val))
      [] OTHER -> Ok(VBlob(col.val))

\* The first result that is not Ok, or Ok of all the values.
FirstFailure(results) ==
    Bind(Vec(results), LAMBDA rs :
    Bind({i \in 1..Len(rs) : rs[i].kind # "Ok"}, LAMBDA bad :
    IF bad = {} THEN Ok(Vec([i \in 1..Len(rs) |-> rs[i].v]))
    ELSE rs[SetMin(bad)]))

Record_decode(cols, row_id) ==
    Bind(FirstFailure([i \in 1..Len(cols) |-> SerialField(cols[i].st, cols[i].st % 2 = 1)]),
         LAMBDA header :
    IF header.kind # "Ok" THEN header
    ELSE Bind(FirstFailure([i \in 1..Len(cols) |-> Record_decode_value(cols[i], row_id)]),
              LAMBDA body :
         IF body.kind # "Ok" THEN body
         ELSE Ok([header |-> header.v,
                  body |-> Vec([i \in 1..Len(cols) |-> [value |-> body.v[i]]])])))

-----------------------------------------------------------------------------
(* page.rs                                                                 *)

PageHeader_parse(raw, tag, ptr_offset) ==
    LET page_type ==
            CASE tag = TABLE_LEAF_PAGE_ID -> "TableLeaf"
              [] tag = TABLE_INTERIOR_PAGE_ID -> "TableInterior"
              [] tag = INDEX_LEAF_PAGE_ID -> "IndexLeaf"
              [] OTHER -> "IndexInterior"
    IN IF page_type \in {"TableLeaf", "IndexLeaf"}
       THEN Ok([page_type |-> page_type, cell_count |-> Len(raw.cells), right_most_point |-> 0])
       \* buffer[ptr_offset + 8 .. 12]
       ELSE IF ptr_offset + PAGE_RIGHT_MOST_POINTER_OFFSET > PAGE_INTERIOR_HEADER_SIZE
       THEN Panic("slice index")
       ELSE Ok([page_type |-> page_type, cell_count |-> Len(raw.cells),
                right_most_point |-> raw.right])

TableLeafCell_parse(cell) ==
    IF ~cell.ptr_ok THEN Panic("slice index")
    ELSE Bind(Record_decode(cell.cols, cell.row_id), LAMBDA record :
         IF record.kind # "Ok" THEN record
         ELSE Ok([row_id |-> cell.row_id, record |-> record.v]))

TableInteriorCell_parse(cell) ==
    IF ~cell.ptr_ok THEN Panic("slice index")
    ELSE Ok([row_id |-> cell.row_id, left_child |-> cell.left])

IndexLeafCell_parse(cell) ==
    IF ~cell.ptr_ok THEN Panic("slice index")
    ELSE Bind(Record_decode(cell.cols, 0), LAMBDA record :
         IF record.kind # "Ok" THEN record
         ELSE Ok([record |-> record.v]))

IndexInteriorCell_parse(cell) ==
    IF ~cell.ptr_ok THEN Panic("slice index")
    ELSE Bind(Record_decode(cell.cols, 0), LAMBDA record :
         IF record.kind # "Ok" THEN record
         ELSE Ok([left_child |-> cell.left, record |-> record.v]))

\* TableLeafPage::parse, TableInteriorPage::parse, IndexLeafPage::parse and
\* IndexInteriorPage::parse: the header, then every cell in pointer order.
Cell_parse(page_type, cell) ==
    CASE page_type = "TableLeaf" -> TableLeafCell_parse(cell)
      [] page_type = "TableInterior" -> TableInteriorCell_parse(cell)
      [] page_type = "IndexLeaf" -> IndexLeafCell_parse(cell)
      [] OTHER -> IndexInteriorCell_parse(cell)

TypedPage_parse(raw, tag, ptr_offset) ==
    Bind(PageHeader_parse(raw, tag, ptr_offset), LAMBDA header :
    IF header.kind # "Ok" THEN header
    ELSE Bind(FirstFailure([i \in 1..Len(raw.cells) |->
                              Cell_parse(header.v.page_type, raw.cells[i])]),
              LAMBDA cells :
         IF cells.kind # "Ok" THEN cells
         ELSE Ok([type |-> header.v.page_type, header |-> header.v, cells |-> cells.v])))

\* Page::parse(buffer, page_num), buffer being file page idx.
Page_parse(raw, idx, page_num) ==
    Bind(IF page_num = 1 THEN HEADER_SIZE ELSE 0, LAMBDA ptr_offset :
    Bind(IF idx = 1 /\ ptr_offset = 0 THEN MagicFirstByte ELSE raw.tag, LAMBDA page_type :
    IF page_type \in {TABLE_LEAF_PAGE_ID, TABLE_INTERIOR_PAGE_ID,
                      INDEX_LEAF_PAGE_ID, INDEX_INTERIOR_PAGE_ID}
    THEN TypedPage_parse(raw, page_type, ptr_offset)
    ELSE Err("Unknown page type in page parse")))

-----------------------------------------------------------------------------
(* db.rs: Pager.  A pager value is [pages, io]: the cache and, as a ghost,  *)
(* how often each file page was seeked and read (counted up to MaxIo).     *)

MaxIo == 2

IoBump(counts, idx) ==
    (idx :> Min((IF idx \in DOMAIN counts THEN counts[idx] ELSE 0) + 1, MaxIo)) @@ counts

\* load_page: the offset is page_num.saturating_sub(1) * page_size, the
\* start of file page idx; read_exact fails past the end of the file.  For
\* a page number near 2^64 (a negative root_page cast to usize) the product
\* wraps and the read fails likewise; a build with overflow checks panics on
\* the product instead, and in both builds no page of the file is read.
Pager_load_page(pg, page_num) ==
    LET idx == IF page_num = 0 THEN 1 ELSE page_num
        pg1 == [pg EXCEPT !.io = IoBump(@, idx)]
    IN IF idx \notin DOMAIN file THEN [r |-> Err("read page"), pg |-> pg1]
       ELSE [r |-> Page_parse(file[idx], idx, page_num), pg |-> pg1]

\* read_page with the insert keyed by the wrong page (a mutant).
Pager_read_page_miskeyed(pg, page_num) ==
    IF page_num \in DOMAIN pg.pages THEN [r |-> Ok(pg.pages[page_num]), pg |-> pg]
    ELSE Bind(Pager_load_page(pg, page_num), LAMBDA l :
         IF l.r.kind # "Ok" THEN l
         ELSE [r |-> l.r, pg |-> [l.pg EXCEPT !.pages = ((page_num + 1) :> l.r.v) @@ @]])

\* read_page without the cache lookup (a mutant)
Pager_read_page_uncached(pg, page_num) ==
    Bind(Pager_load_page(pg, page_num), LAMBDA l :
    IF l.r.kind # "Ok" THEN l
    ELSE [r |-> l.r, pg |-> [l.pg EXCEPT !.pages = (page_num :> l.r.v) @@ @]])

Pager_read_page(pg, page_num) ==
    IF page_num \in DOMAIN pg.pages THEN [r |-> Ok(pg.pages[page_num]), pg |-> pg]
    ELSE Bind(Pager_load_page(pg, page_num), LAMBDA l :
         IF l.r.kind # "Ok" THEN l
         ELSE [r |-> l.r, pg |-> [l.pg EXCEPT !.pages = (page_num :> l.r.v) @@ @]])

-----------------------------------------------------------------------------
(* The str methods the catalog uses                                        *)

SortedSeq(S) ==
    Vec([k \in 1..Cardinality(S) |-> CHOOSE x \in S : Cardinality({y \in S : y < x}) = k - 1])

Positions(s, c) == {i \in 1..Len(s) : Char(s, i) = c}

\* str::to_lowercase (ASCII)
ToLower ==
    [c \in {Char(UpperChars, i) : i \in 1..Len(UpperChars)} |->
        Char(LowerChars, CharPos(c, UpperChars))] @@ <<>>
LowerChar(c) == IF c \in DOMAIN ToLower THEN ToLower[c] ELSE c
RECURSIVE LowerRange(_, _, _)
LowerRange(s, lo, hi) ==
    IF lo > hi THEN ""
    ELSE IF lo = hi THEN LowerChar(Char(s, lo))
    ELSE LowerRange(s, lo, (lo + hi) \div 2) \o LowerRange(s, (lo + hi) \div 2 + 1, hi)
to_lowercase(s) == LowerRange(s, 1, Len(s))

\* str::to_uppercase (ASCII)
ToUpper ==
    [c \in {Char(LowerChars, i) : i \in 1..Len(LowerChars)} |->
        Char(UpperChars, CharPos(c, LowerChars))] @@ <<>>
UpperChar(c) == IF c \in DOMAIN ToUpper THEN ToUpper[c] ELSE c
RECURSIVE UpperRange(_, _, _)
UpperRange(s, lo, hi) ==
    IF lo > hi THEN ""
    ELSE IF lo = hi THEN UpperChar(Char(s, lo))
    ELSE UpperRange(s, lo, (lo + hi) \div 2) \o UpperRange(s, (lo + hi) \div 2 + 1, hi)
to_uppercase(s) == UpperRange(s, 1, Len(s))

\* str::split(c): the pieces between the occurrences of c (always >= 1)
split(s, c) ==
    Bind(SortedSeq({0} \cup Positions(s, c) \cup {Len(s) + 1}), LAMBDA cuts :
    Vec([k \in 1..(Len(cuts) - 1) |-> SubSeq(s, cuts[k] + 1, cuts[k + 1] - 1)]))

WhiteChars == " "
IsWhite(c) == CharIn(c, WhiteChars)

\* str::trim
trim(s) ==
    Bind({i \in 1..Len(s) : ~IsWhite(Char(s, i))}, LAMBDA black :
    IF black = {} THEN "" ELSE SubSeq(s, SetMin(black), SetMax(black)))

\* str::split_whitespace: the maximal runs of non-whitespace
split_whitespace(s) ==
    Bind({i \in 1..Len(s) : ~IsWhite(Char(s, i))}, LAMBDA black :
    Bind(SortedSeq({i \in black : (i - 1) \notin black}), LAMBDA starts :
    Bind(SortedSeq({i \in black : (i + 1) \notin black}), LAMBDA ends :
    Vec([k \in 1..Len(starts) |-> SubSeq(s, starts[k], ends[k])]))))

DQuote == "\""

-----------------------------------------------------------------------------
(* db.rs: parse_create_table_sql, parse_create_index_sql                   *)

\* One column_def of the CREATE TABLE text: Ok(<<column>>), Ok(<<>>) when
\* the definition is passed over, or a panic (parts[1], parts[2]).
create_table_column(column_def) ==
    Bind(trim(column_def), LAMBDA column :
    IF Len(column) > 0 /\ Char(column, 1) = DQuote
    THEN Bind(split(column, DQuote), LAMBDA parts :
         IF Len(parts) < 3 THEN Panic("index out of bounds")
         ELSE Ok(<<[name |-> parts[2], type_name |-> trim(parts[3])]>>))
    ELSE Bind(split_whitespace(column), LAMBDA parts :
         IF Len(parts) >= 2
         THEN Ok(<<[name |-> parts[1], type_name |-> parts[2]]>>)
         ELSE Ok(<<>>)))

create_index_column(column_def) ==
    Bind(split_whitespace(column_def), LAMBDA parts :
    IF Len(parts) < 1 THEN Panic("index out of bounds")
    ELSE Ok(<<[name |-> parts[1], type_name |-> ""]>>))

\* The text between the first "(" and the last ")" of the lowercased sql:
\* Ok(None) when either is missing, a panic when ")" comes first.
column_defs_of(sql) ==
    Bind(Positions(sql, "("), LAMBDA open :
    Bind(Positions(sql, ")"), LAMBDA close :
    IF open = {} \/ close = {} THEN Ok(None)
    ELSE IF SetMin(open) > SetMax(close) THEN Panic("slice index")
    ELSE Ok([kind |-> "Some", s |-> SubSeq(sql, SetMin(open) + 1, SetMax(close) - 1)])))

parse_create_table_sql(sql0) ==
    Bind(column_defs_of(to_lowercase(sql0)), LAMBDA defs :
    IF defs.kind # "Ok" THEN defs
    ELSE IF defs.v = None THEN Ok(<<>>)
    ELSE Bind(split(defs.v.s, ","), LAMBDA pieces :
         Bind(FirstFailure([i \in 1..Len(pieces) |-> create_table_column(pieces[i])]),
              LAMBDA cols :
         IF cols.kind # "Ok" THEN cols ELSE Ok(ConcatAll(cols.v)))))

parse_create_index_sql(sql0) ==
    Bind(column_defs_of(to_lowercase(sql0)), LAMBDA defs :
    IF defs.kind # "Ok" THEN defs
    ELSE IF defs.v = None THEN Ok(<<>>)
    ELSE Bind(split(defs.v.s, ","), LAMBDA pieces :
         Bind(FirstFailure([i \in 1..Len(pieces) |-> create_index_column(pieces[i])]),
              LAMBDA cols :
         IF cols.kind # "Ok" THEN cols ELSE Ok(ConcatAll(cols.v)))))

-----------------------------------------------------------------------------
(* db.rs: Db.  A handle value h is [pages, io, table_schemas,              *)
(* index_schemas]; every method returns [r, h]: its result and the handle  *)
(* as it leaves it.                                                        *)

Ret(r, h) == [r |-> r, h |-> h]

\* `n as i8`
AsI8(n) == ((n + 128) % 256) - 128

\* `root_page as usize`: a negative i8 becomes a page number past the end
\* of every file.
I8AsUsize(i) == IF i >= 0 THEN i ELSE HugeNat + i
\* `i as usize` of an i64 rowid
I64AsUsize(i) == IF i >= 0 THEN i ELSE HugeNat + i

Db_read_page(h, page_num) ==
    Bind(Pager_read_page(h, page_num), LAMBDA p : Ret(p.r, p.pg))

\* One cell of page 1 in get_schemas: Ok(None) where the code continues,
\* Ok([type, key, schema]) where it inserts, or a panic (unwrap, todo!()).
schema_of_cell(cell) ==
    LET body == cell.record.body
        is_string(j) == body[j].value.k = "String"
    IN IF Len(body) < 1 \/ ~is_string(1) THEN Ok(None)
       ELSE IF Len(body) < 2 THEN Panic("unwrap on None")
       ELSE IF ~is_string(2) THEN Ok(None)
       ELSE IF Len(body) < 3 THEN Panic("unwrap on None")
       ELSE IF ~is_string(3) THEN Ok(None)
       ELSE IF Len(body) < 4 THEN Panic("unwrap on None")
       ELSE IF body[4].value.k # "I64" THEN Ok(None)
       ELSE IF Len(body) < 5 THEN Panic("unwrap on None")
       ELSE IF ~is_string(5) THEN Ok(None)
       ELSE Bind(body[1].value.s, LAMBDA schema_type :
            Bind(body[5].value.s, LAMBDA sql :
            Bind(IF schema_type = "table" THEN parse_create_table_sql(sql)
                 ELSE parse_create_index_sql(sql), LAMBDA columns :
            IF schema_type \notin {"table", "index"} THEN Panic("not yet implemented")
            ELSE IF columns.kind # "Ok" THEN columns
            ELSE Ok([kind |-> schema_type,
                     key |-> body[3].value.s,
                     schema |-> [schema_name |-> body[2].value.s,
                                 table_name |-> body[3].value.s,
                                 sql |-> sql,
                                 root_page |-> AsI8(body[4].value.i),
                                 columns |-> columns.v]]))))

\* The for loop of get_schemas over the cells of page 1.
RECURSIVE get_schemas_loop(_, _, _, _)
get_schemas_loop(cells, i, table_schemas, index_schemas) ==
    IF i > Len(cells) THEN Ok([table_schemas |-> table_schemas, index_schemas |-> index_schemas])
    ELSE Bind(schema_of_cell(cells[i]), LAMBDA s :
         IF s.kind # "Ok" THEN s
         ELSE get_schemas_loop(cells, i + 1,
                  IF s.v # None /\ s.v.kind = "table"
                  THEN (s.v.key :> s.v.schema) @@ table_schemas ELSE table_schemas,
                  IF s.v # None /\ s.v.kind = "index"
                  THEN (s.v.key :> s.v.schema) @@ index_schemas ELSE index_schemas))

get_schemas(h) ==
    Bind(Db_read_page(h, 1), LAMBDA first_page :
    IF first_page.r.kind # "Ok" THEN first_page
    ELSE Bind(IF first_page.r.v.type = "TableLeaf"
              THEN get_schemas_loop(first_page.r.v.cells, 1, <<>>, <<>>)
              ELSE Ok([table_schemas |-> <<>>, index_schemas |-> <<>>]), LAMBDA maps :
         IF maps.kind # "Ok" THEN Ret(maps, first_page.h)
         ELSE Ret(Ok(TRUE), [first_page.h EXCEPT !.table_schemas = maps.v.table_schemas,
                                                 !.index_schemas = maps.v.index_schemas])))

Some(x) == [kind |-> "Some", x |-> x]

get_index_schema(h, table_name) ==
    Bind(get_schemas(h), LAMBDA g :
    IF g.r.kind # "Ok" THEN g
    ELSE IF table_name \in DOMAIN g.h.index_schemas
    THEN Ret(Ok(Some(g.h.index_schemas[table_name])), g.h)
    ELSE Ret(Ok(None), g.h))

get_table_schema(h, table_name) ==
    Bind(get_schemas(h), LAMBDA g :
    IF g.r.kind # "Ok" THEN g
    ELSE IF table_name \in DOMAIN g.h.table_schemas
    THEN Ret(Ok(Some(g.h.table_schemas[table_name])), g.h)
    ELSE Ret(Ok(None), g.h))

-----------------------------------------------------------------------------
(* sql/parser.rs: Expr and Stmt as values.                                 *)
(*   Identifier(name), Literal(String(s)) / Literal(Number(n)),            *)
(*   BinaryOp(left, op, right) with op the token type, FunctionCall(name,  *)
(*   args), Wildcard; Select(columns, from, where_clause).                 *)

Identifier(name) == [e |-> "Identifier", name |-> name]
LiteralString(s) == [e |-> "Literal", lit |-> "String", s |-> s]
LiteralNumber(n) == [e |-> "Literal", lit |-> "Number", n |-> n]
BinaryOp(left, op, right) == [e |-> "BinaryOp", left |-> left, op |-> op, right |-> right]
FunctionCall(name, args) == [e |-> "FunctionCall", name |-> name, args |-> args]
Wildcard == [e |-> "Wildcard"]
Select(columns, from, where_clause) ==
    [columns |-> columns, from |-> from, where_clause |-> where_clause]
TableReference(name) == [name |-> name, alias |-> None]

-----------------------------------------------------------------------------
(* db.rs: the executor.  A result row is [rid, vals]: vals is the          *)
(* Vec<String> the code returns, rid (ghost) the rowid of the table leaf   *)
(* cell it was built from.                                                 *)

\* HashMap built by inserting values[j] under names[j] for the positions j
\* of keep, in order: a later insert replaces an earlier one.
RowMap(names, values, keep) ==
    [k \in {names[j] : j \in keep} |-> values[SetMax({j \in keep : names[j] = k})]] @@ <<>>

\* cell.record.body.last().unwrap().value as a rowid
index_row_id(cell) ==
    LET v == cell.record.body[Len(cell.record.body)].value IN
    IF v.k = "I64" THEN Ok(<<I64AsUsize(v.i)>>) ELSE Err("Invalid row id")

\* get_row_ids on an index leaf page: one step of its loop
get_row_ids_leaf_cell(cell, query_value) ==
    IF Len(cell.record.body) = 0 THEN Panic("index out of bounds")
    ELSE IF Value_eq(cell.record.body[1].value, VString(query_value))
    THEN index_row_id(cell)
    ELSE Ok(<<>>)

RECURSIVE get_row_ids(_, _, _)
RECURSIVE get_row_ids_interior(_, _, _, _, _)

\* The loop of get_row_ids over the cells of an index interior page, from
\* cell i on, then the right-most child.
get_row_ids_interior(h, page, i, query_value, result) ==
    IF i > Len(page.cells)
    THEN Bind(Db_read_page(h, page.header.right_most_point), LAMBDA right_page :
         IF right_page.r.kind # "Ok" THEN right_page
         ELSE Bind(get_row_ids(right_page.h, right_page.r.v, query_value), LAMBDA row_ids :
              IF row_ids.r.kind # "Ok" THEN row_ids
              ELSE Ret(Ok(result \o row_ids.r.v), row_ids.h)))
    ELSE Bind(page.cells[i], LAMBDA cell :
         IF Len(cell.record.body) = 0 THEN Ret(Panic("index out of bounds"), h)
         ELSE Bind(cell.record.body[1].value, LAMBDA key :
              Bind(IF Value_ge(key, VString(query_value))
                   THEN Bind(Db_read_page(h, cell.left_child), LAMBDA child :
                        IF child.r.kind # "Ok" THEN child
                        ELSE get_row_ids(child.h, child.r.v, query_value))
                   ELSE Ret(Ok(<<>>), h), LAMBDA left :
              Bind(IF Value_eq(key, VString(query_value)) THEN index_row_id(cell)
                   ELSE Ok(<<>>), LAMBDA own :
              IF left.r.kind # "Ok" THEN left
              ELSE IF own.kind # "Ok" THEN Ret(own, left.h)
              ELSE get_row_ids_interior(left.h, page, i + 1, query_value,
                                        result \o left.r.v \o own.v)))))

get_row_ids(h, page, query_value) ==
    CASE page.type = "IndexLeaf" ->
           Bind(FirstFailure([i \in 1..Len(page.cells) |->
                                get_row_ids_leaf_cell(page.cells[i], query_value)]),
                LAMBDA found :
           IF found.kind # "Ok" THEN Ret(found, h) ELSE Ret(Ok(ConcatAll(found.v)), h))
      [] page.type = "IndexInterior" -> get_row_ids_interior(h, page, 1, query_value, <<>>)
      [] OTHER -> Ret(Err("get_row_ids expected an index page"), h)

\* get_rows_leaf: one step of its loop over the cells
get_rows_leaf_cell(cell, columns, schema, row_ids) ==
    LET column_names == {IF columns[i].e = "Identifier" THEN columns[i].name ELSE "" :
                            i \in 1..Len(columns)}
        n == Min(Len(schema.columns), Len(cell.record.body))
        names == Vec([j \in 1..n |-> schema.columns[j].name])
        values == Vec([j \in 1..n |-> cell.record.body[j].value])
        row_map == RowMap(names, values, {j \in 1..n : names[j] \in column_names})
        shown(i) ==
            IF columns[i].e = "Identifier" /\ columns[i].name \in DOMAIN row_map
            THEN LET value == row_map[columns[i].name] IN
                 CASE value.k = "I64" -> Ok(<<IntToString(value.i)>>)
                   [] value.k = "String" -> Ok(<<value.s>>)
                   [] OTHER -> Err("Invalid value type")
            ELSE Ok(<<>>)
        row == FirstFailure([i \in 1..Len(columns) |-> shown(i)])
    IN IF ~("id" \in DOMAIN row_map /\ row_map["id"].k = "I64") THEN Err("Invalid row id")
       ELSE IF I64AsUsize(row_map["id"].i) \notin Range(row_ids) THEN Ok(<<>>)
       ELSE IF row.kind # "Ok" THEN row
       ELSE Ok(<<[rid |-> cell.row_id, vals |-> ConcatAll(row.v)]>>)

get_rows_leaf(h, leaf_page, columns, schema, row_ids) ==
    Bind(FirstFailure([i \in 1..Len(leaf_page.cells) |->
                         get_rows_leaf_cell(leaf_page.cells[i], columns, schema, row_ids)]),
         LAMBDA rows :
    IF rows.kind # "Ok" THEN Ret(rows, h) ELSE Ret(Ok(ConcatAll(rows.v)), h))

\* row_ids.iter().any(|id| *id < cell.row_id as usize)
get_rows_interior_descends(row_ids, cell) ==
    \E k \in 1..Len(row_ids) : row_ids[k] < cell.row_id

RECURSIVE get_rows(_, _, _, _, _)
RECURSIVE get_rows_interior_loop(_, _, _, _, _, _, _)

get_rows_interior_loop(h, page, i, columns, schema, row_ids, rows) ==
    IF i > Len(page.cells)
    THEN Bind(Db_read_page(h, page.header.right_most_point), LAMBDA right :
         IF right.r.kind # "Ok" THEN right
         ELSE Bind(get_rows(right.h, right.r.v, columns, schema, row_ids), LAMBDA more :
              IF more.r.kind # "Ok" THEN more ELSE Ret(Ok(rows \o more.r.v), more.h)))
    ELSE Bind(page.cells[i], LAMBDA cell :
         Bind(IF get_rows_interior_descends(row_ids, cell)
              THEN Bind(Db_read_page(h, cell.left_child), LAMBDA child :
                   IF child.r.kind # "Ok" THEN child
                   ELSE get_rows(child.h, child.r.v, columns, schema, row_ids))
              ELSE Ret(Ok(<<>>), h), LAMBDA left :
         IF left.r.kind # "Ok" THEN left
         ELSE get_rows_interior_loop(left.h, page, i + 1, columns, schema, row_ids,
                                     rows \o left.r.v)))

get_rows_interior(h, interior_page, columns, schema, row_ids) ==
    get_rows_interior_loop(h, interior_page, 1, columns, schema, row_ids, <<>>)

get_rows(h, page, columns, schema, row_ids) ==
    CASE page.type = "TableLeaf" -> get_rows_leaf(h, page, columns, schema, row_ids)
      [] page.type = "TableInterior" -> get_rows_interior(h, page, columns, schema, row_ids)
      [] OTHER -> Ret(Err("get_row_by_row_id expected a table leaf page"), h)


\* check(where_expr, row_map): Ok(bool), or the panic of unwrap on a column
\* the row does not have.
check(where_expr, row_map) ==
    IF where_expr.e # "BinaryOp" THEN Ok(FALSE)
    ELSE LET l == where_expr.left
             r == where_expr.right
             missing(x) == x.e = "Identifier" /\ x.name \notin DOMAIN row_map
             left == IF l.e = "Identifier" THEN row_map[l.name] ELSE ""
             right == CASE r.e = "Identifier" -> row_map[r.name]
                        [] r.e = "Literal" /\ r.lit = "String" -> r.s
                        [] r.e = "Literal" /\ r.lit = "Number" -> IntToString(r.n)
                        [] OTHER -> ""
         IN IF missing(l) \/ missing(r) THEN Panic("unwrap on None")
            ELSE IF where_expr.op = "Equal" THEN Ok(left = right)
            ELSE Ok(FALSE)

where_clause_matches(where_clause, row_map) ==
    IF where_clause = None THEN Ok(TRUE) ELSE check(where_clause.x, row_map)

\* The first column of the select list that is a call of "count", 0 if none
count_column(columns) ==
    LET calls == {i \in 1..Len(columns) :
                     /\ columns[i].e = "FunctionCall"
                     /\ columns[i].name.e = "Identifier"
                     /\ columns[i].name.name = "count"}
    IN IF calls = {} THEN 0 ELSE SetMin(calls)

\* query_leaf_page: one step of its loop over the cells.  The step passes
\* the cell over (Skip), pushes a row (Row), or returns from the function
\* with one row (Return).
query_leaf_cell(leaf_page, cell, columns, schema, where_clause) ==
    LET n == Min(Len(schema.columns), Len(cell.record.body))
        names == Vec([j \in 1..n |-> schema.columns[j].name])
        values == Vec([j \in 1..n |-> Value_to_string(cell.record.body[j].value)])
        row_map == RowMap(names, values, 1..n)
        matches == where_clause_matches(where_clause, row_map)
        shown(i) == IF columns[i].e # "Identifier" THEN <<>>
                    ELSE IF columns[i].name \in DOMAIN row_map
                    THEN <<row_map[columns[i].name]>>
                    ELSE <<"NULL">>
        c == count_column(columns)
    IN IF matches.kind # "Ok" THEN matches
       ELSE IF ~matches.v THEN Ok([step |-> "Skip"])
       ELSE IF c = 0
       THEN Ok([step |-> "Row",
                row |-> [rid |-> cell.row_id,
                         vals |-> ConcatAll([i \in 1..Len(columns) |-> shown(i)])]])
       ELSE Ok([step |-> "Return",
                row |-> [rid |-> cell.row_id,
                         vals |-> ConcatAll([i \in 1..(c - 1) |-> shown(i)])
                                  \o <<IntToString(Len(leaf_page.cells))>>]])

query_leaf_page(h, leaf_page, columns, schema, where_clause) ==
    Bind(Vec([i \in 1..Len(leaf_page.cells) |->
                query_leaf_cell(leaf_page, leaf_page.cells[i], columns, schema,
                                where_clause)]), LAMBDA steps :
    Bind({i \in 1..Len(steps) : steps[i].kind # "Ok" \/ steps[i].v.step = "Return"},
         LAMBDA stop :
    Bind(SortedSeq({i \in 1..Len(steps) : steps[i].kind = "Ok" /\ steps[i].v.step = "Row"}),
         LAMBDA kept :
    IF stop = {} THEN Ret(Ok(Vec([k \in 1..Len(kept) |-> steps[kept[k]].v.row])), h)
    ELSE IF steps[SetMin(stop)].kind # "Ok" THEN Ret(steps[SetMin(stop)], h)
    ELSE Ret(Ok(<<steps[SetMin(stop)].v.row>>), h))))

RECURSIVE query_interior_page(_, _, _, _, _)
RECURSIVE query_interior_loop(_, _, _, _, _, _, _)

\* query_interior_page passing over the interior pages below it (a mutant)
query_child_leaves_only(h, page, columns, schema, where_clause) ==
    IF page.type = "TableLeaf" THEN query_leaf_page(h, page, columns, schema, where_clause)
    ELSE Ret(Ok(<<>>), h)

\* What query_interior_page does with a child page it has read.
query_child(h, page, columns, schema, where_clause) ==
    CASE page.type = "TableLeaf" -> query_leaf_page(h, page, columns, schema, where_clause)
      [] page.type = "TableInterior" -> query_interior_page(h, page, columns, schema, where_clause)
      [] OTHER -> Ret(Ok(<<>>), h)

query_interior_loop(h, page, i, columns, schema, where_clause, result) ==
    Bind(Db_read_page(h, IF i > Len(page.cells) THEN page.header.right_most_point
                         ELSE page.cells[i].left_child), LAMBDA child :
    IF child.r.kind # "Ok" THEN child
    ELSE Bind(query_child(child.h, child.r.v, columns, schema, where_clause), LAMBDA rows :
         IF rows.r.kind # "Ok" THEN rows
         ELSE IF i > Len(page.cells) THEN Ret(Ok(result \o rows.r.v), rows.h)
         ELSE query_interior_loop(rows.h, page, i + 1, columns, schema, where_clause,
                                  result \o rows.r.v)))

query_interior_page(h, interior_page, columns, schema, where_clause) ==
    query_interior_loop(h, interior_page, 1, columns, schema, where_clause, <<>>)


\* execute_sql, the branch taken when the table has no index schema: the
\* result sets it pushes (none when the table is unknown).
execute_select_scan(h, table_ref, columns, where_clause) ==
    Bind(get_table_schema(h, table_ref.name), LAMBDA t :
    IF t.r.kind # "Ok" THEN t
    ELSE IF t.r.v = None THEN Ret(Ok(<<>>), t.h)
    ELSE Bind(t.r.v.x, LAMBDA schema :
         Bind(Db_read_page(t.h, I8AsUsize(schema.root_page)), LAMBDA page :
         IF page.r.kind # "Ok" THEN page
         ELSE Bind(CASE page.r.v.type = "TableLeaf" ->
                          query_leaf_page(page.h, page.r.v, columns, schema, where_clause)
                     [] page.r.v.type = "TableInterior" ->
                          query_interior_page(page.h, page.r.v, columns, schema, where_clause)
                     [] OTHER -> Ret(Err("Unknown page type in query"), page.h), LAMBDA rows :
              IF rows.r.kind # "Ok" THEN rows ELSE Ret(Ok(<<rows.r.v>>), rows.h)))))

\* The WHERE clause the index branch accepts: BinaryOp(_, _, Literal(String))
has_query_value(where_clause) ==
    /\ where_clause # None
    /\ where_clause.x.e = "BinaryOp"
    /\ where_clause.x.right.e = "Literal"
    /\ where_clause.x.right.lit = "String"

\* execute_sql, the branch taken when get_index_schema finds a schema under
\* the table's name.
execute_select_index(h, schema, table_ref, columns, where_clause) ==
    IF ~has_query_value(where_clause) THEN Ret(Ok(<<>>), h)
    ELSE Bind(where_clause.x.right.s, LAMBDA query_value :
         Bind(Db_read_page(h, I8AsUsize(schema.root_page)), LAMBDA page :
         IF page.r.kind # "Ok" THEN page
         ELSE Bind(get_row_ids(page.h, page.r.v, query_value), LAMBDA row_ids :
              IF row_ids.r.kind # "Ok" THEN row_ids
              ELSE Bind(get_table_schema(row_ids.h, table_ref.name), LAMBDA t :
                   IF t.r.kind # "Ok" THEN t
                   ELSE IF t.r.v = None THEN Ret(Ok(<<>>), t.h)
                   ELSE Bind(Db_read_page(t.h, I8AsUsize(t.r.v.x.root_page)), LAMBDA root :
                        IF root.r.kind # "Ok" THEN root
                        ELSE Bind(get_rows(root.h, root.r.v, columns, t.r.v.x, row_ids.r.v),
                                  LAMBDA rows :
                             IF rows.r.kind # "Ok" THEN rows
                             ELSE Ret(Ok(<<rows.r.v>>), rows.h)))))))

\* The body of the loop of execute_sql for one statement
execute_stmt(h, stmt) ==
    IF stmt.from = None THEN Ret(Ok(<<>>), h)
    ELSE Bind(stmt.from.x, LAMBDA table_ref :
         Bind(get_index_schema(h, table_ref.name), LAMBDA index :
         IF index.r.kind # "Ok" THEN index
         ELSE IF index.r.v # None
         THEN execute_select_index(index.h, index.r.v.x, table_ref, stmt.columns,
                                   stmt.where_clause)
         ELSE execute_select_scan(index.h, table_ref, stmt.columns, stmt.where_clause)))

\* execute_sql from the parsed statements on: the result sets in order
RECURSIVE execute_stmts(_, _, _, _)
execute_stmts(h, stmts, i, result) ==
    IF i > Len(stmts) THEN Ret(Ok(result), h)
    ELSE Bind(execute_stmt(h, stmts[i]), LAMBDA one :
         IF one.r.kind # "Ok" THEN one
         ELSE execute_stmts(one.h, stmts, i + 1, result \o one.r.v))

-----------------------------------------------------------------------------
(* The files of the model: page 1 is the schema page, a table t(id, c, d)  *)
(* follows as a B-tree of the chosen shape and, when the layout has one,   *)
(* an index on t(c).                                                       *)

MaxRows == 3
MaxLeafCells == 2
MaxFanOut == 2
MaxIndexLeafCells == 1

TextValues == <<"a", "b">>

CreateTableSql == "CREATE TABLE t (id integer, c text, d text)"
CreateIndexSql == "CREATE INDEX i ON t (c)"

TextCol(s) == [st |-> 13 + 2 * Len(s), val |-> s]
NullCol == [st |-> 0, val |-> 0]
I8Col(i) == [st |-> 1, val |-> i]

RawCell(left, row_id, cols) == [ptr_ok |-> TRUE, left |-> left, row_id |-> row_id, cols |-> cols]
RawPage(tag, right, cells) == [tag |-> tag, right |-> right, cells |-> cells]

\* The rows of t: rowids 1..n, c as chosen, d by the parity of the rowid.
TableRows(cs) ==
    Vec([r \in 1..Len(cs) |-> [rid |-> r, c |-> cs[r], d |-> TextValues[2 - (r % 2)]]])

\* s cut into pieces of at most k elements
Chunks(s, k) ==
    Vec([j \in 1..((Len(s) + k - 1) \div k) |-> SubSeq(s, (j - 1) * k + 1, Min(j * k, Len(s)))])

TableLeafRaw(rows) ==
    RawPage(TABLE_LEAF_PAGE_ID, 0,
            Vec([j \in 1..Len(rows) |->
                    RawCell(0, rows[j].rid, <<NullCol, TextCol(rows[j].c), TextCol(rows[j].d)>>)]))

\* An interior page over the nodes kids, each [page, key]: key is the
\* largest rowid below the node.
TableInteriorRaw(kids) ==
    RawPage(TABLE_INTERIOR_PAGE_ID, kids[Len(kids)].page,
            Vec([j \in 1..(Len(kids) - 1) |-> RawCell(kids[j].page, kids[j].key, <<>>)]))

\* Interior levels over nodes until one node is left; built are the pages
\* from page number first on.  The result is [pages, root].
RECURSIVE TableLevels(_, _, _, _)
TableLevels(nodes, built, first, fan) ==
    IF Len(nodes) = 1 THEN [pages |-> built, root |-> nodes[1].page]
    ELSE LET groups == Chunks(nodes, fan)
             next == first + Len(built)
         IN TableLevels(Vec([g \in 1..Len(groups) |->
                                [page |-> next + g - 1, key |-> groups[g][Len(groups[g])].key]]),
                        built \o [g \in 1..Len(groups) |-> TableInteriorRaw(groups[g])],
                        first, fan)

\* The table B-tree of rows with at most cap cells in a leaf and at most
\* fan children under an interior page, from page number first on.
TableTree(rows, cap, fan, first) ==
    LET leaves == IF rows = <<>> THEN <<(<<>>)>> ELSE Chunks(rows, cap)
        nodes == Vec([j \in 1..Len(leaves) |->
                        [page |-> first + j - 1,
                         key |-> IF leaves[j] = <<>> THEN 0 ELSE leaves[j][Len(leaves[j])].rid]])
    IN TableLevels(nodes, Vec([j \in 1..Len(leaves) |-> TableLeafRaw(leaves[j])]), first, fan)

\* The entries of the index on c: (c, rowid) in ascending order.
IndexEntries(rows) ==
    LET before(x, y) == StrLt(x.c, y.c) \/ (x.c = y.c /\ x.rid < y.rid)
        S == Range(rows)
    IN Vec([k \in 1..Len(rows) |->
              CHOOSE x \in S : Cardinality({y \in S : before(y, x)}) = k - 1])

IndexCols(entry) == <<TextCol(entry.c), I8Col(entry.rid)>>

IndexLeafRaw(entries) ==
    RawPage(INDEX_LEAF_PAGE_ID, 0,
            Vec([j \in 1..Len(entries) |-> RawCell(0, 0, IndexCols(entries[j]))]))

\* The index B-tree: one leaf, or an interior root whose cells carry every
\* (cap+1)-th entry between leaves of cap entries.  [pages, root].
IndexTree(entries, cap, first) ==
    LET n == Len(entries)
        cells == IF n <= cap + 1 THEN 0 ELSE (n - 1) \div (cap + 1)
        leaf(j) == IndexLeafRaw(SubSeq(entries, (j - 1) * (cap + 1) + 1,
                                       IF j > cells THEN n ELSE j * (cap + 1) - 1))
    IN IF cells = 0 THEN [pages |-> <<IndexLeafRaw(entries)>>, root |-> first]
       ELSE [pages |-> [j \in 1..(cells + 1) |-> leaf(j)]
                       \o <<RawPage(INDEX_INTERIOR_PAGE_ID, first + cells,
                                    [j \in 1..cells |->
                                        RawCell(first + j - 1, 0,
                                                IndexCols(entries[j * (cap + 1)]))])>>,
             root |-> first + cells + 1]

\* An integer column in the narrowest of the widths 1 and 2 that holds i
I16Col(i) == [st |-> 2, val |-> i]
IntCol(i) == IF i < 128 THEN I8Col(i) ELSE I16Col(i)

SchemaCell(row_id, type, name, root, sql) ==
    RawCell(0, row_id, <<TextCol(type), TextCol(name), TextCol("t"), IntCol(root), TextCol(sql)>>)

\* The file of a layout [cs, cap, fan, icap]: icap = 0 is a table without
\* an index.
BuildFile(l) ==
    LET rows == TableRows(l.cs)
        table == TableTree(rows, l.cap, l.fan, 2)
        index == IndexTree(IndexEntries(rows), l.icap, 2 + Len(table.pages))
        schema == <<SchemaCell(1, "table", "t", table.root, CreateTableSql)>>
                  \o (IF l.icap = 0 THEN <<>>
                      ELSE <<SchemaCell(2, "index", "i", index.root, CreateIndexSql)>>)
    IN <<RawPage(TABLE_LEAF_PAGE_ID, 0, schema)>> \o table.pages
       \o (IF l.icap = 0 THEN <<>> ELSE index.pages)

ColumnValues == UNION {[1..n -> Range(TextValues)] : n \in 0..MaxRows}

Layouts ==
    [cs : ColumnValues, cap : 1..MaxLeafCells, fan : {MaxFanOut}, icap : 0..MaxIndexLeafCells]

\* Db::from_file: an empty cache and empty schema maps
NewDb == [pages |-> <<>>, io |-> <<>>, table_schemas |-> <<>>, index_schemas |-> <<>>]

-----------------------------------------------------------------------------
(* Spec: Db::execute_sql.  The statements are values of parser::Stmt.      *)

SelectLists ==
    { <<Identifier("id"), Identifier("c")>>,
      <<Identifier("id"), Identifier("x")>>,
      <<Identifier("c")>>,
      <<FunctionCall(Identifier("COUNT"), <<Wildcard>>)>>,
      <<FunctionCall(Identifier("count"), <<Wildcard>>)>> }

Equals(column, literal) == Some(BinaryOp(Identifier(column), "Equal", literal))

WhereClauses ==
    { None,
      Equals("c", LiteralString("a")),
      Equals("d", LiteralString("a")),
      Equals("c", LiteralNumber(1)) }

From(name) == Some(TableReference(name))

Statements ==
    {<<Select(columns, From("t"), where_clause)>> :
        columns \in SelectLists, where_clause \in WhereClauses}
    \cup {<<Select(<<Identifier("c")>>, From("u"), None)>>,
          <<Select(<<Identifier("c")>>, From("t"), None),
            Select(<<Identifier("id")>>, From("t"), Equals("c", LiteralString("b")))>>}

Init ==
    /\ \E l \in Layouts :
          /\ layout = [cs |-> l.cs, cap |-> l.cap, fan |-> l.fan, icap |-> l.icap,
                       rows |-> TableRows(l.cs), junk |-> "none"]
          /\ file = BuildFile(l)
    /\ db = NewDb
    /\ returned = <<>>
    /\ alive = TRUE
    /\ last = None
    /\ fin = None /\ fout = None

\* The queries one handle answers
MaxCalls == 2
Calls == IF last = None THEN 0 ELSE last.n

ExecuteSql(stmts) ==
    /\ alive /\ db # None
    /\ Calls < MaxCalls
    /\ \E res \in {execute_stmts(db, stmts, 1, <<>>)} :
          /\ db' = res.h
          /\ alive' = (res.r.kind # "Panic")
          /\ last' = [call |-> "execute_sql", stmts |-> stmts, r |-> res.r, n |-> Calls + 1]
    /\ UNCHANGED <<fin, fout, file, layout, returned>>

Next == \E stmts \in Statements : ExecuteSql(stmts)

Spec == Init /\ [][Next]_vars

-----------------------------------------------------------------------------
(* SpecPager: Pager::read_page on one handle.  The files end in a page the *)
(* page decoder fails on, in one of the ways JunkKinds lists.              *)

JunkKinds == {"none", "tag", "pointer", "utf8", "serial"}

JunkPage(kind) ==
    CASE kind = "tag" -> <<RawPage(0, 0, <<>>)>>
      [] kind = "pointer" ->
           <<RawPage(TABLE_LEAF_PAGE_ID, 0,
                     <<[ptr_ok |-> FALSE, left |-> 0, row_id |-> 1, cols |-> <<>>]>>)>>
      [] kind = "utf8" ->
           <<RawPage(TABLE_LEAF_PAGE_ID, 0, <<RawCell(0, 1, <<[st |-> 15, val |-> BadUtf8]>>)>>)>>
      [] kind = "serial" ->
           <<RawPage(TABLE_LEAF_PAGE_ID, 0, <<RawCell(0, 1, <<[st |-> 10, val |-> 0]>>)>>)>>
      [] OTHER -> <<>>

PagerLayouts ==
    [cs : {<<"a", "b">>}, cap : {1}, fan : {MaxFanOut}, icap : {0, 1}, junk : JunkKinds]

InitPager ==
    /\ \E l \in PagerLayouts :
          /\ layout = [cs |-> l.cs, cap |-> l.cap, fan |-> l.fan, icap |-> l.icap,
                       rows |-> TableRows(l.cs), junk |-> l.junk]
          /\ file = BuildFile(l) \o JunkPage(l.junk)
    /\ db = NewDb
    /\ returned = <<>>
    /\ alive = TRUE
    /\ last = None
    /\ fin = None /\ fout = None

PagerReadPage(page_num) ==
    /\ alive /\ db # None
    /\ \E res \in {Pager_read_page(db, page_num)} :
          /\ db' = res.pg
          /\ alive' = (res.r.kind # "Panic")
          /\ last' = [call |-> "read_page", page_num |-> page_num, r |-> res.r,
                      before |-> db.pages]
          /\ returned' = IF res.r.kind # "Ok" THEN returned
                         ELSE (page_num :> ((IF page_num \in DOMAIN returned
                                             THEN returned[page_num] ELSE {})
                                            \cup {res.r.v})) @@ returned
    /\ UNCHANGED <<fin, fout, file, layout>>

NextPager == \E page_num \in 0..(Len(file) + 1) : PagerReadPage(page_num)

SpecPager == InitPager /\ [][NextPager]_vars

-----------------------------------------------------------------------------
(* sql/token.rs, sql/keywords.rs, sql/scanner.rs.  A scanner value is      *)
(* [source, tokens, start, current, line]; start and current count the     *)
(* characters before the position, as the code's indices do.               *)

Token(token_type, lexeme, literal, line) ==
    [token_type |-> token_type, lexeme |-> lexeme, literal |-> literal, line |-> line]

\* The map KEYWORDS
KEYWORDS ==
    [k \in {"SELECT", "FROM", "WHERE", "AND", "OR", "INSERT", "INTO", "VALUES",
            "CREATE", "TABLE", "DELETE", "UPDATE", "SET"} |->
        CASE k = "SELECT" -> "Select" [] k = "FROM" -> "From" [] k = "WHERE" -> "Where"
          [] k = "AND" -> "And" [] k = "OR" -> "Or" [] k = "INSERT" -> "Insert"
          [] k = "INTO" -> "Into" [] k = "VALUES" -> "Values" [] k = "CREATE" -> "Create"
          [] k = "TABLE" -> "Table" [] k = "DELETE" -> "Delete" [] k = "UPDATE" -> "Update"
          [] OTHER -> "Set"] @@ <<>>

\* keywords::get
keywords_get(text) ==
    Bind(to_uppercase(text), LAMBDA keyword :
    IF keyword \in DOMAIN KEYWORDS THEN Some(KEYWORDS[keyword]) ELSE None)

\* The character '\0' peek and peek_next return at the end of the source
NulChar == "<NUL>"

is_alphabetic(c) == CharIn(c, UpperChars) \/ CharIn(c, LowerChars)
is_digit(c) == CharIn(c, DigitChars)

Scanner_new(source) ==
    [source |-> source, tokens |-> <<>>, start |-> 0, current |-> 0, line |-> 1]

Scanner_is_at_end(sc) == sc.current >= Len(sc.source)

Scanner_peek(sc) ==
    IF Scanner_is_at_end(sc) THEN NulChar ELSE Char(sc.source, sc.current + 1)

Scanner_peek_next(sc) ==
    IF sc.current + 1 >= Len(sc.source) THEN NulChar ELSE Char(sc.source, sc.current + 2)

Scanner_add_token(sc, token_type, literal) ==
    [sc EXCEPT !.tokens = Append(@, Token(token_type,
                                          SubSeq(sc.source, sc.start + 1, sc.current),
                                          literal, sc.line))]

\* `while keep(self.peek()) { self.advance(); }`: the value of current after it
AdvanceWhile(sc, keep(_)) ==
    Bind({i \in (sc.current + 1)..Len(sc.source) : ~keep(Char(sc.source, i))}, LAMBDA stops :
    IF stops = {} THEN Len(sc.source) ELSE SetMin(stops) - 1)

\* The newlines between the characters numbered from + 1 .. to
Newlines(source, from, to) == Cardinality({i \in (from + 1)..to : Char(source, i) = "\n"})

Scanner_string(sc, quote) ==
    Bind(AdvanceWhile(sc, LAMBDA c : c # quote), LAMBDA stop :
    Bind([sc EXCEPT !.current = stop,
                    !.line = @ + Newlines(sc.source, sc.current, stop)], LAMBDA body :
    IF Scanner_is_at_end(body) THEN body
    ELSE Bind([body EXCEPT !.current = @ + 1], LAMBDA closed :
         Scanner_add_token(closed, "String",
                           Some(SubSeq(closed.source, closed.start + 2, closed.current - 1))))))

Scanner_number(sc) ==
    Bind([sc EXCEPT !.current = AdvanceWhile(sc, is_digit)], LAMBDA whole :
    Bind(IF Scanner_peek(whole) = "." /\ is_digit(Scanner_peek_next(whole))
         THEN [whole EXCEPT !.current =
                  AdvanceWhile([whole EXCEPT !.current = @ + 1], is_digit)]
         ELSE whole, LAMBDA all :
    Scanner_add_token(all, "Number", Some(SubSeq(all.source, all.start + 1, all.current)))))

Scanner_identifier(sc) ==
    Bind([sc EXCEPT !.current = AdvanceWhile(sc, LAMBDA c : is_alphabetic(c) \/ c = "_")],
         LAMBDA word :
    Bind(keywords_get(SubSeq(word.source, word.start + 1, word.current)), LAMBDA keyword :
    Scanner_add_token(word, IF keyword = None THEN "Identifier" ELSE keyword.x, None)))

\* The token type of a single-character token
SingleCharTokens ==
    [c \in {"(", ")", ",", ".", ";", "*", "="} |->
        CASE c = "(" -> "LeftParen" [] c = ")" -> "RightParen" [] c = "," -> "Comma"
          [] c = "." -> "Dot" [] c = ";" -> "Semicolon" [] c = "*" -> "Star"
          [] OTHER -> "Equal"] @@ <<>>

\* scan_token leaving a blank unread (a mutant)
Scanner_scan_token_blank_unread(sc0) ==
    Bind([sc0 EXCEPT !.current = @ + 1], LAMBDA sc :
    Bind(Char(sc.source, sc.current), LAMBDA c :
    CASE c \in DOMAIN SingleCharTokens -> Scanner_add_token(sc, SingleCharTokens[c], None)
      [] c \in {" ", "\r", "\t"} -> sc0
      [] c = "\n" -> [sc EXCEPT !.line = @ + 1]
      [] c \in {"\"", "'"} -> Scanner_string(sc, c)
      [] is_digit(c) -> Scanner_number(sc)
      [] is_alphabetic(c) -> Scanner_identifier(sc)
      [] OTHER -> sc))

Scanner_scan_token(sc0) ==
    Bind([sc0 EXCEPT !.current = @ + 1], LAMBDA sc :
    Bind(Char(sc.source, sc.current), LAMBDA c :
    CASE c \in DOMAIN SingleCharTokens -> Scanner_add_token(sc, SingleCharTokens[c], None)
      [] c \in {" ", "\r", "\t"} -> sc
      [] c = "\n" -> [sc EXCEPT !.line = @ + 1]
      [] c \in {"\"", "'"} -> Scanner_string(sc, c)
      [] is_digit(c) -> Scanner_number(sc)
      [] is_alphabetic(c) -> Scanner_identifier(sc)
      [] OTHER -> sc))

RECURSIVE Scanner_scan_loop(_)
Scanner_scan_loop(sc) ==
    IF Scanner_is_at_end(sc) THEN sc
    ELSE Scanner_scan_loop(Scanner_scan_token([sc EXCEPT !.start = sc.current]))

\* Scanner::scan_tokens: the tokens of the source, EOF last
Scanner_scan_tokens(source) ==
    Bind(Scanner_scan_loop(Scanner_new(source)), LAMBDA sc :
    Append(sc.tokens, Token("EOF", "", None, sc.line)))

-----------------------------------------------------------------------------
(* sql/parser.rs.  The parser's `current` is threaded through the          *)
(* operators: each returns [r, cur], the outcome and the position after.   *)

Parsed(r, cur) == [r |-> r, cur |-> cur]

Parser_peek(tokens, cur) == tokens[cur + 1]
Parser_is_at_end(tokens, cur) == Parser_peek(tokens, cur).token_type = "EOF"

Parser_peek_next(tokens, cur) ==
    IF Parser_is_at_end(tokens, cur) THEN tokens[cur + 1] ELSE tokens[cur + 2]

Parser_check(tokens, cur, token_type) ==
    ~Parser_is_at_end(tokens, cur) /\ Parser_peek(tokens, cur).token_type = token_type

\* advance: the position after it (previous() is then tokens[cur])
Parser_advance(tokens, cur) == IF Parser_is_at_end(tokens, cur) THEN cur ELSE cur + 1

Parser_consume(tokens, cur, token_type, message) ==
    IF Parser_check(tokens, cur, token_type)
    THEN Parsed(Ok(Parser_peek(tokens, cur)), Parser_advance(tokens, cur))
    ELSE Parsed(Err(message), cur)

\* str::parse::<f64> on the literal of a Number token (digits, and possibly
\* a fraction): the integer for a whole number, the text for a fraction.
RECURSIVE DigitsValue(_)
DigitsValue(s) ==
    IF s = "" THEN 0
    ELSE 10 * DigitsValue(SubSeq(s, 1, Len(s) - 1)) + CharPos(Char(s, Len(s)), DigitChars) - 1
ParseF64(s) == IF \A i \in 1..Len(s) : is_digit(Char(s, i)) THEN DigitsValue(s) ELSE s

Parser_primary(tokens, cur) ==
    CASE Parser_check(tokens, cur, "Identifier") ->
           Parsed(Ok(Identifier(Parser_peek(tokens, cur).lexeme)), cur + 1)
      [] Parser_check(tokens, cur, "String") ->
           Parsed(Ok(LiteralString(Parser_peek(tokens, cur).literal.x)), cur + 1)
      [] Parser_check(tokens, cur, "Number") ->
           Parsed(Ok(LiteralNumber(ParseF64(Parser_peek(tokens, cur).literal.x))), cur + 1)
      [] Parser_check(tokens, cur, "Star") -> Parsed(Ok(Wildcard), cur + 1)
      [] OTHER -> Parsed(Panic("not yet implemented"), cur)

RECURSIVE Parser_expression(_, _)
RECURSIVE Parser_function_call(_, _)
RECURSIVE Parser_expression_list(_, _, _)

\* The loops of select_list and of function_call: expressions separated by
\* commas, pushed onto list
Parser_expression_list(tokens, cur, list) ==
    Bind(Parser_expression(tokens, cur), LAMBDA e :
    IF e.r.kind # "Ok" THEN e
    ELSE IF Parser_check(tokens, e.cur, "Comma")
    THEN Parser_expression_list(tokens, e.cur + 1, Append(list, e.r.v))
    ELSE Parsed(Ok(Append(list, e.r.v)), e.cur))

Parser_function_call(tokens, cur) ==
    Bind(Parser_peek(tokens, cur).lexeme, LAMBDA name :
    Bind(Parser_consume(tokens, Parser_advance(tokens, cur), "LeftParen",
                        "Expected '(' after function name"), LAMBDA open :
    IF open.r.kind # "Ok" THEN open
    ELSE Bind(IF Parser_check(tokens, open.cur, "Star")
              THEN Parsed(Ok(<<Wildcard>>), open.cur + 1)
              ELSE Parser_expression_list(tokens, open.cur, <<>>), LAMBDA args :
         IF args.r.kind # "Ok" THEN args
         ELSE Bind(Parser_consume(tokens, args.cur, "RightParen",
                                  "Expected ')' after function arguments"), LAMBDA close :
              IF close.r.kind # "Ok" THEN close
              ELSE Parsed(Ok(FunctionCall(Identifier(name), args.r.v)), close.cur)))))

Parser_expression(tokens, cur) ==
    IF /\ Parser_check(tokens, cur, "Identifier")
       /\ Parser_peek_next(tokens, cur).token_type = "LeftParen"
    THEN Parser_function_call(tokens, cur)
    ELSE Parser_primary(tokens, cur)

Parser_select_list(tokens, cur) == Parser_expression_list(tokens, cur, <<>>)

Parser_table_reference(tokens, cur) ==
    Bind(Parser_consume(tokens, cur, "Identifier", "Expected table name"), LAMBDA name :
    IF name.r.kind # "Ok" THEN name
    ELSE IF ~Parser_check(tokens, name.cur, "As")
    THEN Parsed(Ok([name |-> name.r.v.lexeme, alias |-> None]), name.cur)
    ELSE Bind(Parser_consume(tokens, name.cur + 1, "Identifier", "Expected table alias"),
              LAMBDA alias :
         IF alias.r.kind # "Ok" THEN alias
         ELSE Parsed(Ok([name |-> name.r.v.lexeme, alias |-> Some(alias.r.v.lexeme)]),
                     alias.cur)))

Parser_select_stmt(tokens, cur) ==
    Bind(Parser_select_list(tokens, cur), LAMBDA columns :
    IF columns.r.kind # "Ok" THEN columns
    ELSE Bind(Parser_consume(tokens, columns.cur, "From",
                             "Expected 'FROM' after select columns"), LAMBDA from_kw :
         IF from_kw.r.kind # "Ok" THEN from_kw
         ELSE Bind(Parser_table_reference(tokens, from_kw.cur), LAMBDA from :
              IF from.r.kind # "Ok" THEN from
              ELSE IF ~Parser_check(tokens, from.cur, "Where")
              THEN Parsed(Ok(Select(columns.r.v, Some(from.r.v), None)), from.cur)
              ELSE Bind(Parser_expression(tokens, from.cur + 1), LAMBDA where_clause :
                   IF where_clause.r.kind # "Ok" THEN where_clause
                   ELSE Parsed(Ok(Select(columns.r.v, Some(from.r.v),
                                         Some(where_clause.r.v))), where_clause.cur)))))

Parser_parse_stmt(tokens, cur) ==
    IF Parser_check(tokens, cur, "Select") THEN Parser_select_stmt(tokens, cur + 1)
    ELSE Parsed(Panic("not yet implemented"), cur)

RECURSIVE Parser_parse_loop(_, _, _)
Parser_parse_loop(tokens, cur, stmts) ==
    IF Parser_is_at_end(tokens, cur) THEN Parsed(Ok(stmts), cur)
    ELSE Bind(Parser_parse_stmt(tokens, cur), LAMBDA stmt :
         IF stmt.r.kind # "Ok" THEN stmt
         ELSE Parser_parse_loop(tokens, stmt.cur, Append(stmts, stmt.r.v)))

\* Parser::new(tokens).parse()
Parser_parse(tokens) == Parser_parse_loop(tokens, 0, <<>>)

\* Result::unwrap
Unwrap(r) == IF r.kind = "Err" THEN Panic("unwrap on Err") ELSE r

\* Db::execute_sql(sql)
Db_execute_sql(h, sql) ==
    Bind(Unwrap(Parser_parse(Scanner_scan_tokens(sql)).r), LAMBDA stmts :
    IF stmts.kind # "Ok" THEN Ret(stmts, h)
    ELSE execute_stmts(h, stmts.v, 1, <<>>))

-----------------------------------------------------------------------------
(* SpecParser: Scanner::scan_tokens, Parser::parse and Db::execute_sql on  *)
(* SQL texts.                                                              *)

CompareOps == {"=", "!=", "<", "<=", ">", ">="}

\* WHERE clauses `IDENT op LITERAL`: literal is the SQL text of the literal,
\* value the string it denotes.
WhereCases ==
    {[column |-> "id", op |-> op, literal |-> "2", value |-> "2"] : op \in CompareOps}
    \cup {[column |-> "c", op |-> op, literal |-> "'a'", value |-> "a"] : op \in {"=", "!="}}

WhereSql(w) == "SELECT id FROM t WHERE " \o w.column \o " " \o w.op \o " " \o w.literal

\* Texts the grammar accepts
AcceptedTexts ==
    {"", "SELECT c FROM t", "select id, c from t", "SELECT * FROM t", "SELECT c FROM u",
     "SELECT COUNT(*) FROM t", "SELECT max(c, d) FROM t", "SELECT 'x', 1 FROM t",
     "SELECT c FROM t WHERE c"}

\* Texts the grammar does not accept: no SELECT at the start, no FROM, a
\* token that starts no primary expression, tokens after the statement.
RejectedTexts ==
    {"INSERT INTO t VALUES (1)", "SELECT c", "SELECT , FROM t", "SELECT c FROM t;",
     "SELECT c FROM t t"}

\* Table references with an alias
AliasTexts == {"SELECT x FROM t " \o kw \o " a" : kw \in {"AS", "as", "As"}}

SqlTexts ==
    {WhereSql(w) : w \in WhereCases} \cup AcceptedTexts \cup RejectedTexts \cup AliasTexts

ParserLayouts ==
    [cs : {<<"a">>, <<"a", "b", "a">>}, cap : {MaxLeafCells}, fan : {MaxFanOut},
     icap : 0..MaxIndexLeafCells]

InitParser ==
    /\ \E l \in ParserLayouts :
          /\ layout = [cs |-> l.cs, cap |-> l.cap, fan |-> l.fan, icap |-> l.icap,
                       rows |-> TableRows(l.cs), junk |-> "none"]
          /\ file = BuildFile(l)
    /\ db = NewDb
    /\ returned = <<>>
    /\ alive = TRUE
    /\ last = None
    /\ fin = None /\ fout = None

ScanTokens(sql) ==
    /\ fin = None /\ last = None
    /\ fin' = [fn |-> "scan_tokens", sql |-> sql]
    /\ fout' = Scanner_scan_tokens(sql)
    /\ UNCHANGED <<file, layout, db, returned, alive, last>>

Parse(sql) ==
    /\ fin = None /\ last = None
    /\ fin' = [fn |-> "parse", sql |-> sql]
    /\ \E tokens \in {Scanner_scan_tokens(sql)} :
       \E res \in {Parser_parse(tokens)} :
          fout' = [r |-> res.r, cur |-> res.cur, tokens |-> tokens]
    /\ UNCHANGED <<file, layout, db, returned, alive, last>>

ExecuteSqlText(sql) ==
    /\ alive /\ db # None
    /\ fin = None
    /\ Calls < MaxCalls
    /\ \E res \in {Db_execute_sql(db, sql)} :
          /\ db' = res.h
          /\ alive' = (res.r.kind # "Panic")
          /\ last' = [call |-> "execute_sql", sql |-> sql, r |-> res.r, n |-> Calls + 1]
    /\ UNCHANGED <<fin, fout, file, layout, returned>>

NextParser ==
    \/ \E sql \in SqlTexts : ScanTokens(sql)
    \/ \E sql \in SqlTexts : Parse(sql)
    \/ \E sql \in SqlTexts : ExecuteSqlText(sql)

SpecParser == InitParser /\ [][NextParser]_vars

-----------------------------------------------------------------------------
(* SpecCatalog: the catalog of db.rs (get_schemas, get_table_schema,       *)
(* get_index_schema) and execute_sql over files whose schema page varies:  *)
(* a view or trigger row beside the table, or a table whose B-tree lies    *)
(* past the page numbers an i8 holds.                                      *)

\* i8::MAX, the largest value of Schema.root_page
I8Max == 127

CatalogKinds == {"plain", "view", "trigger", "far"}

ViewSql == "CREATE VIEW v AS SELECT c FROM t"
TriggerSql == "CREATE TRIGGER v AFTER INSERT ON t BEGIN SELECT c FROM t; END"

\* A page no schema row points at
FillerPage == RawPage(TABLE_LEAF_PAGE_ID, 0, <<>>)

\* The first page of the table B-tree of a layout
FirstTablePage(l) == IF l.kind = "far" THEN I8Max + 1 ELSE 2

\* The file of a layout [cs, cap, fan, icap, kind]
BuildCatalogFile(l) ==
    LET rows == TableRows(l.cs)
        table == TableTree(rows, l.cap, l.fan, FirstTablePage(l))
        index == IndexTree(IndexEntries(rows), l.icap, FirstTablePage(l) + Len(table.pages))
        schema == <<SchemaCell(1, "table", "t", table.root, CreateTableSql)>>
                  \o (IF l.icap = 0 THEN <<>>
                      ELSE <<SchemaCell(2, "index", "i", index.root, CreateIndexSql)>>)
                  \o (CASE l.kind = "view" -> <<SchemaCell(3, "view", "v", 0, ViewSql)>>
                        [] l.kind = "trigger" -> <<SchemaCell(3, "trigger", "v", 0, TriggerSql)>>
                        [] OTHER -> <<>>)
    IN <<RawPage(TABLE_LEAF_PAGE_ID, 0, schema)>>
       \o Rep(FillerPage, FirstTablePage(l) - 2)
       \o table.pages
       \o (IF l.icap = 0 THEN <<>> ELSE index.pages)

CatalogLayouts ==
    [cs : {<<"a">>, <<"a", "b">>}, cap : {1}, fan : {MaxFanOut},
     icap : 0..MaxIndexLeafCells, kind : CatalogKinds]

\* The spellings of table names the catalog is asked for
CatalogNames == {"t", "T", "u"}

CatalogStatements ==
    {<<Select(<<Identifier(column)>>, From(name), None)>> :
        column \in {"c", "C"}, name \in CatalogNames}
    \cup {<<Select(<<Identifier("c")>>, From("t"), Equals("C", LiteralString("a")))>>}

InitCatalog ==
    /\ \E l \in CatalogLayouts :
          /\ layout = [cs |-> l.cs, cap |-> l.cap, fan |-> l.fan, icap |-> l.icap,
                       rows |-> TableRows(l.cs), junk |-> "none", kind |-> l.kind]
          /\ file = BuildCatalogFile(l)
    /\ db = NewDb
    /\ returned = <<>>
    /\ alive = TRUE
    /\ last = None
    /\ fin = None /\ fout = None

GetTableSchema(table_name) ==
    /\ alive /\ db # None
    /\ Calls < MaxCalls
    /\ \E res \in {get_table_schema(db, table_name)} :
          /\ db' = res.h
          /\ alive' = (res.r.kind # "Panic")
          /\ last' = [call |-> "get_table_schema", name |-> table_name, r |-> res.r,
                      n |-> Calls + 1]
    /\ UNCHANGED <<fin, fout, file, layout, returned>>

GetIndexSchema(table_name) ==
    /\ alive /\ db # None
    /\ Calls < MaxCalls
    /\ \E res \in {get_index_schema(db, table_name)} :
          /\ db' = res.h
          /\ alive' = (res.r.kind # "Panic")
          /\ last' = [call |-> "get_index_schema", name |-> table_name, r |-> res.r,
                      n |-> Calls + 1]
    /\ UNCHANGED <<fin, fout, file, layout, returned>>

NextCatalog ==
    \/ \E table_name \in CatalogNames : GetTableSchema(table_name)
    \/ \E table_name \in CatalogNames : GetIndexSchema(table_name)
    \/ \E stmts \in CatalogStatements : ExecuteSql(stmts)

SpecCatalog == InitCatalog /\ [][NextCatalog]_vars

-----------------------------------------------------------------------------
(* SpecCreateTable: parse_create_table_sql on CREATE TABLE texts built     *)
(* from column definitions.                                                *)

MaxColumnDefs == 3

\* Column definitions with the column name each declares; typed tells
\* whether a second token follows the name.
ColumnDefs ==
    {[text |-> "id integer", name |-> "id", typed |-> TRUE],
     [text |-> "c text", name |-> "c", typed |-> TRUE],
     [text |-> "d", name |-> "d", typed |-> FALSE],
     [text |-> "\"e f\" text", name |-> "e f", typed |-> TRUE],
     [text |-> "p decimal(10,2)", name |-> "p", typed |-> TRUE],
     [text |-> "q decimal(10, 2)", name |-> "q", typed |-> TRUE]}

ColumnDefLists == UNION {[1..n -> ColumnDefs] : n \in 1..MaxColumnDefs}

RECURSIVE JoinDefs(_, _)
JoinDefs(defs, i) ==
    IF i > Len(defs) THEN ""
    ELSE (IF i = 1 THEN "" ELSE ", ") \o defs[i].text \o JoinDefs(defs, i + 1)

CreateTableText(defs) == "CREATE TABLE t (" \o JoinDefs(defs, 1) \o ")"

InitCreateTable ==
    /\ \E defs \in ColumnDefLists :
          fin = [fn |-> "parse_create_table_sql", defs |-> defs, sql |-> CreateTableText(defs)]
    /\ fout = None
    /\ file = <<>> /\ layout = None /\ db = None /\ returned = <<>>
    /\ alive = TRUE /\ last = None

CallParseCreateTable ==
    /\ fin.fn = "parse_create_table_sql" /\ fout = None
    /\ fout' = parse_create_table_sql(fin.sql)
    /\ UNCHANGED <<fin, file, layout, db, returned, alive, last>>

NextCreateTable == CallParseCreateTable

SpecCreateTable == InitCreateTable /\ [][NextCreateTable]_vars

-----------------------------------------------------------------------------
(* main.rs: the command line.  A run of main is one value                  *)
(* [r, stdout, opened, io]: the Result main returns, the lines printed,    *)
(* whether File::open was called, and the file pages read.  The file of    *)
(* the model is the one at DbPath; it starts with a well-formed header.    *)

DbPath == "sample.db"
Paths == {DbPath, "missing.db"}
PageSize == 4096

Run(r, stdout, opened, io) == [r |-> r, stdout |-> stdout, opened |-> opened, io |-> io]

\* Vec<String>::sort
RECURSIVE sort_strings(_)
sort_strings(names) ==
    IF names = <<>> THEN <<>>
    ELSE Bind(CHOOSE i \in 1..Len(names) :
                 \A j \in 1..Len(names) :
                    ~StrLt(names[j], names[i]) /\ (names[j] = names[i] => i <= j),
              LAMBDA least :
         <<names[least]>>
         \o sort_strings(SubSeq(names, 1, least - 1) \o SubSeq(names, least + 1, Len(names))))

\* [String]::join
RECURSIVE join(_, _)
join(parts, sep) ==
    IF parts = <<>> THEN ""
    ELSE IF Len(parts) = 1 THEN parts[1]
    ELSE parts[1] \o sep \o join(Tail(parts), sep)

\* Db::from_file: open the file, read and parse the header, new Pager
Db_from_file(path) == IF path = DbPath THEN Ok(NewDb) ELSE Err("open db file")

\* the loop of the .tables branch over the cells of page 1
table_names_of(cells) ==
    ConcatAll([i \in 1..Len(cells) |->
        IF Len(cells[i].record.body) >= 3 /\ cells[i].record.body[3].value.k = "String"
        THEN <<cells[i].record.body[3].value.s>>
        ELSE <<>>])

main_dbinfo(path) ==
    IF path # DbPath THEN Run(Err("No such file or directory"), <<>>, TRUE, <<>>)
    ELSE Run(Ok(<<>>),
             <<"database page size: " \o IntToString(PageSize),
               "number of tables: " \o IntToString(Len(file[1].cells))>>,
             TRUE, 1 :> 1)

main_tables(path) ==
    Bind(Db_from_file(path), LAMBDA opened :
    IF opened.kind # "Ok" THEN Run(opened, <<>>, TRUE, <<>>)
    ELSE Bind(Pager_read_page(opened.v, 1), LAMBDA p :
         IF p.r.kind # "Ok" THEN Run(Unwrap(p.r), <<>>, TRUE, p.pg.io)
         ELSE IF p.r.v.type = "TableLeaf"
         THEN Run(Ok(<<>>), <<join(sort_strings(table_names_of(p.r.v.cells)), " ")>>,
                  TRUE, p.pg.io)
         ELSE Run(Err("Invalid page type"), <<>>, TRUE, p.pg.io)))

\* Db::execute: run the statement and print one line per row, the columns
\* separated by a bar
Db_execute(h, sql) ==
    Bind(Db_execute_sql(h, sql), LAMBDA res :
    IF res.r.kind # "Ok" THEN Run(res.r, <<>>, TRUE, res.h.io)
    ELSE Bind(ConcatAll(res.r.v), LAMBDA rows :
         Run(Ok(<<>>), [i \in 1..Len(rows) |-> join(rows[i].vals, "|")], TRUE, res.h.io)))

main_sql(path, sql) ==
    Bind(Db_from_file(path), LAMBDA opened :
    IF opened.kind # "Ok" THEN Run(opened, <<>>, TRUE, <<>>)
    ELSE Db_execute(opened.v, sql))

main(args) ==
    IF Len(args) <= 1 THEN Run(Err("Missing <database path> and <command>"), <<>>, FALSE, <<>>)
    ELSE IF Len(args) = 2 THEN Run(Err("Missing <command>"), <<>>, FALSE, <<>>)
    ELSE IF args[3] = ".dbinfo" THEN main_dbinfo(args[2])
    ELSE IF args[3] = ".tables" THEN main_tables(args[2])
    ELSE main_sql(args[2], args[3])

\* impl Termination for Result<(), E>, and the exit status of a panic
ExitCode(r) == IF r.kind = "Ok" THEN 0 ELSE IF r.kind = "Err" THEN 1 ELSE 101

(* SpecMain: one run of the program on a database file.                    *)

Commands == {".dbinfo", ".tables", "SELECT c FROM t", "SELECT COUNT(*) FROM t",
             "SELECT c FROM u"}

ArgLists ==
    {<<>>, <<"prog">>}
    \cup {<<"prog", path>> : path \in Paths}
    \cup {<<"prog", path, command>> : path \in Paths, command \in Commands}

InitMain ==
    /\ \E l \in CatalogLayouts :
          /\ layout = [cs |-> l.cs, cap |-> l.cap, fan |-> l.fan, icap |-> l.icap,
                       rows |-> TableRows(l.cs), junk |-> "none", kind |-> l.kind]
          /\ file = BuildCatalogFile(l)
    /\ db = None
    /\ returned = <<>>
    /\ alive = TRUE
    /\ last = None
    /\ fin = None /\ fout = None

Main(args) ==
    /\ alive /\ last = None
    /\ \E run \in {main(args)} :
          /\ last' = [call |-> "main", args |-> args, r |-> run.r, stdout |-> run.stdout,
                      opened |-> run.opened, io |-> run.io, code |-> ExitCode(run.r), n |-> 1]
          /\ alive' = FALSE
    /\ UNCHANGED <<fin, fout, file, layout, db, returned>>

NextMain == \E args \in ArgLists : Main(args)

SpecMain == InitMain /\ [][NextMain]_vars

-----------------------------------------------------------------------------
(* SpecScanner: Scanner::scan_tokens step by step.  fout is the Scanner,   *)
(* one action is one turn of the loop of scan_tokens, the last one the     *)
(* push of EOF and the return; returned is the token list it returns.      *)

\* Texts with an unterminated string, a string over two lines, numbers with
\* and without decimals, characters that start no token, blanks only
ScannerTexts ==
    {"SELECT 'x", "x = \"a\nb\" ", "12.5.x 7.", "a_b?c1", " \t\r\n", "?", "'", "eof EOF"}

InitScanner ==
    /\ \E sql \in SqlTexts \cup ScannerTexts :
          /\ fin = [fn |-> "Scanner", sql |-> sql]
          /\ fout = Scanner_new(sql)
    /\ returned = <<>>
    /\ alive = TRUE
    /\ file = <<>> /\ layout = None /\ db = None /\ last = None

ScanToken ==
    /\ alive /\ ~Scanner_is_at_end(fout)
    /\ fout' = Scanner_scan_token([fout EXCEPT !.start = fout.current])
    /\ UNCHANGED <<fin, file, layout, db, returned, alive, last>>

ScanReturn ==
    /\ alive /\ Scanner_is_at_end(fout)
    /\ fout' = [fout EXCEPT !.tokens = Append(@, Token("EOF", "", None, fout.line))]
    /\ returned' = fout'.tokens
    /\ alive' = FALSE
    /\ UNCHANGED <<fin, file, layout, db, last>>

NextScanner == ScanToken \/ ScanReturn

\* The loop runs on: a turn that can be taken is taken.
SpecScanner == InitScanner /\ [][NextScanner]_vars /\ WF_vars(NextScanner)

-----------------------------------------------------------------------------
(* The claims.                                                             *)

IsExecute == last # None /\ last.call = "execute_sql"
IsReadPage == last # None /\ last.call = "read_page"

\* The last call ran one SELECT on table t
SingleSelect == IsExecute /\ Len(last.stmts) = 1 /\ last.stmts[1].from = From("t")

IsPlain(columns) == \A i \in 1..Len(columns) : columns[i].e = "Identifier"
RowIds(rows) == {rows[i].rid : i \in 1..Len(rows)}
TableRowIds == {layout.rows[i].rid : i \in 1..Len(layout.rows)}
LeafCount == (Len(layout.rows) + layout.cap - 1) \div layout.cap

\* WHERE c = 'q' for a string literal q
IsIndexedEquality(where_clause) ==
    /\ has_query_value(where_clause)
    /\ where_clause.x.op = "Equal"
    /\ where_clause.x.left = Identifier("c")

\* What the full scan answers to the last statement on the same handle
ScanOfLast ==
    execute_select_scan(db, last.stmts[1].from.x, last.stmts[1].columns,
                        last.stmts[1].where_clause).r

\* The rowids get_row_ids collects from the index root for the last statement
IndexRowIdsOfLast ==
    LET root == Db_read_page(db, I8AsUsize(db.index_schemas["t"].root_page)) IN
    get_row_ids(root.h, root.r.v, last.stmts[1].where_clause.x.right.s).r

C2_ScanYieldsEveryRowOnce ==
    (/\ SingleSelect
     /\ layout.icap = 0
     /\ last.stmts[1].where_clause = None
     /\ IsPlain(last.stmts[1].columns))
    => /\ last.r.kind = "Ok"
       /\ Len(last.r.v) = 1
       /\ Len(last.r.v[1]) = Len(layout.rows)
       /\ RowIds(last.r.v[1]) = TableRowIds

\* C2 witness: the scan has answered on a tree with nested interior pages
C2_Witness ==
    /\ SingleSelect
    /\ layout.icap = 0
    /\ last.stmts[1].where_clause = None
    /\ IsPlain(last.stmts[1].columns)
    /\ LeafCount > layout.fan
    /\ last.r.kind = "Ok"
    /\ Len(last.r.v[1]) = 3

IsCountStar(columns) ==
    /\ Len(columns) = 1
    /\ columns[1].e = "FunctionCall"
    /\ to_lowercase(columns[1].name.name) = "count"
    /\ columns[1].args = <<Wildcard>>

\* C3: SELECT COUNT(*) FROM t without WHERE, the function name in any letter
\* case, returns exactly one row whose single value is the number of rows
\* of t, for an empty, a single-leaf and a multi-leaf table.
C3_CountStar ==
    (/\ SingleSelect
     /\ layout.icap = 0
     /\ last.stmts[1].where_clause = None
     /\ IsCountStar(last.stmts[1].columns))
    => /\ last.r.kind = "Ok"
       /\ Len(last.r.v) = 1
       /\ Len(last.r.v[1]) = 1
       /\ last.r.v[1][1].vals = <<IntToString(Len(layout.rows))>>

\* C4: a SELECT on a table that has an index, whose WHERE clause is not an
\* equality of the indexed column with a string literal, is answered by the
\* full scan with the predicate applied, and a result set is produced.
C4_OtherSelectsScan ==
    (/\ SingleSelect
     /\ layout.icap # 0
     /\ ~IsIndexedEquality(last.stmts[1].where_clause))
    => /\ last.r.kind = "Ok"
       /\ Len(last.r.v) = 1
       /\ last.r = ScanOfLast

C6_ReadPageIdempotent ==
    \A k \in DOMAIN returned : Cardinality(returned[k]) = 1

\* C6 witness: read_page(k) has succeeded again, from the cache, after
\* other pages were read
C6_Witness ==
    /\ IsReadPage
    /\ last.r.kind = "Ok"
    /\ last.page_num \in DOMAIN last.before
    /\ Cardinality(DOMAIN last.before) >= 3
    /\ returned[last.page_num] = {last.r.v}

\* C7: the cache holds page k exactly if an earlier read_page(k) succeeded;
\* a read_page call that fails (short read, page decoder failure) returns
\* an error and leaves the cache as it was.
C7_FailedReadReturnsError ==
    /\ db # None => DOMAIN db.pages = DOMAIN returned
    /\ (IsReadPage /\ last.r.kind # "Ok")
       => (last.r.kind = "Err" /\ db.pages = last.before)

\* C8: read_varint on a conforming encoding e of v, followed by any bytes,
\* returns (length of e, v).
C8_VarintRoundTrip ==
    (fin # None /\ fin.fn = "read_varint" /\ fout # None)
    => fout = Ok([n |-> Len(fin.e), value |-> fin.v])

\* C8 witness: a nine-byte encoding of a value with bit 63 set, followed by
\* bytes that are not part of it, has been decoded
C8_Witness ==
    /\ fin # None /\ fin.fn = "read_varint" /\ fout # None
    /\ Len(fin.e) = 9
    /\ fin.v[1] = 1
    /\ Len(fin.tail) = MaxTail
    /\ fout.v.n = 9

\* C9: RecordHeader::parse gives every serial type that is not reserved the
\* kind and width of the table (12 is a Blob of 0 bytes), and Record::parse
\* reads column i at the header length plus the widths before it.
C9_SerialTypeTable ==
    /\ (/\ fin # None
        /\ fin.fn = "RecordHeader::parse"
        /\ fout # None
        /\ Range(fin.codes) \cap ReservedCodes = {})
       => /\ fout.kind = "Ok"
          /\ Len(fout.v.fields) = Len(fin.codes)
          /\ \A i \in 1..Len(fin.codes) :
                /\ fout.v.fields[i].field_type = SpecKind(fin.codes[i])
                /\ fout.v.fields[i].field_size = SpecWidth(fin.codes[i])
    /\ (/\ fin # None
        /\ fin.fn = "Record::parse"
        /\ fout # None
        /\ fout.kind = "Ok")
       => \A i \in 1..Len(fin.codes) :
             fout.v.body[i].offset =
                HeaderLen(fin.codes) + SumSeq([j \in 1..(i - 1) |-> SpecWidth(fin.codes[j])])

\* C10: a record whose header holds serial type 10 or 11 decodes to an
\* error returned by Record::parse or to NULL; the decoder does not abort.
C10_ReservedCodesNoAbort ==
    (/\ fin # None
     /\ fin.fn = "Record::parse"
     /\ fout # None
     /\ Range(fin.codes) \cap ReservedCodes # {}
     /\ Range(fin.codes) \subseteq ReservedCodes \cup {0, 1})
    => fout.kind # "Panic"

\* The serial types of the 24-bit and of the 48-bit integer
NarrowIntCodes == {3, 5}

\* C11: Record::parse completes on every record whose columns have serial
\* type 3 or 5, and each column decodes to the Int64 that is its big-endian
\* two's-complement body sign-extended to 64 bits.
C11_NarrowIntsSignExtended ==
    (/\ fin # None
     /\ fin.fn = "Record::parse"
     /\ fout # None
     /\ Range(fin.codes) \subseteq NarrowIntCodes)
    => /\ fout.kind = "Ok"
       /\ \A i \in 1..Len(fin.codes) :
             fout.v.body[i].value =
                I64Val(SignExtend64(BytesBits(ColumnBody(fin.codes[i], fin.hi))))

\* C12: a column of serial type 0 decodes to NULL; only the leading column of
\* a record, parsed with the rowid of its table leaf cell, takes that rowid.
\* (An index record is parsed with row_id 0 and keeps every NULL.)
C12_NullStaysNull ==
    (/\ fin # None
     /\ fin.fn = "Record::parse"
     /\ fout # None
     /\ fout.kind = "Ok")
    => \A i \in 1..Len(fin.codes) :
          fin.codes[i] = 0 =>
             IF i = 1 /\ fin.row_id # 0
             THEN fout.v.body[i].value = I64Val(NatAsU64(fin.row_id))
             ELSE fout.v.body[i].value.k = "Null"

\* The last call read the page whose cell pointer lies outside the buffer
ReadBadPointerPage ==
    /\ IsReadPage
    /\ layout.junk = "pointer"
    /\ last.page_num = Len(file)

\* C13: read_page of a page whose cell-pointer array holds an offset outside
\* the page buffer returns the error TruncatedPage, which Page::parse gave
\* the pager; the call does not abort.
C13_BadPointerIsTruncatedPage ==
    ReadBadPointerPage => last.r = Err("TruncatedPage")

IsGetTableSchema == last # None /\ last.call = "get_table_schema"
IsGetIndexSchema == last # None /\ last.call = "get_index_schema"

\* C14: when page 1 holds a view or trigger row beside the rows of table t
\* and of its index, get_schemas skips that row: a catalog lookup of t
\* succeeds and both maps hold the rows of the page.
C14_OtherSchemaRowsSkipped ==
    (/\ IsGetTableSchema
     /\ layout.kind \in {"view", "trigger"}
     /\ last.name = "t")
    => /\ last.r.kind = "Ok"
       /\ last.r.v # None
       /\ DOMAIN db.table_schemas = {"t"}
       /\ DOMAIN db.index_schemas = (IF layout.icap = 0 THEN {} ELSE {"t"})

\* The rows execute_sql answered the single statement of the last call with
\* are the values of column c, in rowid order
AnswersColumnC ==
    /\ last.r.kind = "Ok"
    /\ Len(last.r.v) = 1
    /\ Len(last.r.v[1]) = Len(layout.rows)
    /\ \A k \in 1..Len(layout.rows) : last.r.v[1][k].vals = <<layout.rows[k].c>>

\* C15: get_table_schema and get_index_schema find the schema registered
\* under t for the spellings t and T, and a column written C in the select
\* list resolves to the schema column c.
C15_CaseInsensitiveCatalog ==
    /\ (/\ IsGetTableSchema
        /\ layout.kind = "plain"
        /\ to_lowercase(last.name) = "t")
       => /\ last.r.kind = "Ok"
          /\ last.r.v # None
          /\ last.r.v.x = db.table_schemas["t"]
    /\ (/\ IsGetIndexSchema
        /\ layout.kind = "plain"
        /\ layout.icap # 0
        /\ to_lowercase(last.name) = "t")
       => /\ last.r.kind = "Ok"
          /\ last.r.v # None
          /\ last.r.v.x = db.index_schemas["t"]
    /\ (/\ IsExecute
        /\ layout.kind = "plain"
        /\ layout.icap = 0
        /\ last.stmts = <<Select(<<Identifier("C")>>, From("t"), None)>>)
       => AnswersColumnC

\* The integer stored in the rootpage column of the schema row of table t
StoredTableRoot == file[1].cells[1].cols[4].val

\* C20: a SELECT on t starts its traversal at the page whose number is
\* stored in the rootpage column of the schema row, for roots below and
\* above 127: that page is read and its rows are answered.
C20_RootPageNotTruncated ==
    (/\ IsExecute
     /\ layout.kind \in {"plain", "far"}
     /\ layout.icap = 0
     /\ last.stmts = <<Select(<<Identifier("c")>>, From("t"), None)>>)
    => /\ StoredTableRoot \in DOMAIN db.io
       /\ AnswersColumnC

\* C17: a SELECT whose FROM names a table that is not in the catalog returns
\* the error UnknownTable, not a success.
C17_UnknownTableIsError ==
    (/\ IsExecute
     /\ Len(last.stmts) = 1
     /\ last.stmts[1].from = From("u"))
    => /\ last.r.kind = "Err"
       /\ last.r.msg = "UnknownTable"

IsExecuteText == last # None /\ last.call = "execute_sql" /\ "sql" \in DOMAIN last

\* The display string of a column of a row of t
Display(row, column) == IF column = "id" THEN IntToString(row.rid) ELSE row.c

IsIntText(s) == s # "" /\ \A i \in 1..Len(s) : is_digit(Char(s, i))

\* Whether WHERE column op literal keeps the row
Keeps(row, w) ==
    CASE w.op = "=" -> Display(row, w.column) = w.value
      [] w.op = "!=" -> Display(row, w.column) # w.value
      [] OTHER ->
           /\ IsIntText(Display(row, w.column)) /\ IsIntText(w.value)
           /\ CASE w.op = "<" -> DigitsValue(Display(row, w.column)) < DigitsValue(w.value)
                [] w.op = "<=" -> DigitsValue(Display(row, w.column)) <= DigitsValue(w.value)
                [] w.op = ">" -> DigitsValue(Display(row, w.column)) > DigitsValue(w.value)
                [] OTHER -> DigitsValue(Display(row, w.column)) >= DigitsValue(w.value)

\* C16: `SELECT id FROM t WHERE IDENT op LITERAL`, for each of the six
\* comparison operators, is lexed and parsed, and answers exactly the rows
\* the comparison keeps (string equality for = and !=, integer comparison
\* for the other four).
C16_WhereComparisons ==
    \A w \in WhereCases :
       (/\ IsExecuteText
        /\ layout.icap = 0
        /\ last.sql = WhereSql(w))
       => /\ last.r.kind = "Ok"
          /\ Len(last.r.v) = 1
          /\ RowIds(last.r.v[1]) =
                {layout.rows[k].rid : k \in {j \in 1..Len(layout.rows) : Keeps(layout.rows[j], w)}}
          /\ Len(last.r.v[1]) = Cardinality(RowIds(last.r.v[1]))

\* C18: for every text the grammar does not accept, execute_sql returns an
\* error value; neither the parser nor the unwrap of its result aborts.
C18_RejectedTextIsSyntaxError ==
    (IsExecuteText /\ last.sql \in RejectedTexts) => last.r.kind = "Err"

\* C19: the word AS in any letter case is lexed as the token As, and
\* `SELECT x FROM t AS a` parses to one SELECT on the table reference with
\* name t and alias a, all tokens up to EOF consumed.
C19_AsIsKeyword ==
    /\ (/\ fin # None
        /\ fin.fn = "scan_tokens"
        /\ fin.sql \in AliasTexts)
       => /\ Len(fout) = 7
          /\ fout[5].token_type = "As"
    /\ (/\ fin # None
        /\ fin.fn = "parse"
        /\ fin.sql \in AliasTexts)
       => /\ fout.r = Ok(<<Select(<<Identifier("x")>>,
                                  Some([name |-> "t", alias |-> Some("a")]), None)>>)
          /\ Parser_is_at_end(fout.tokens, fout.cur)

\* C21: parse_create_table_sql returns one column for each top-level column
\* definition of the text, in order, under the name the definition declares;
\* a definition without a second token has the empty declared type.
C21_OneColumnPerDefinition ==
    (/\ fin # None
     /\ fin.fn = "parse_create_table_sql"
     /\ fout # None)
    => /\ fout.kind = "Ok"
       /\ Len(fout.v) = Len(fin.defs)
       /\ \A i \in 1..Len(fin.defs) :
             /\ fout.v[i].name = fin.defs[i].name
             /\ ~fin.defs[i].typed => fout.v[i].type_name = ""

IsMain == last # None /\ last.call = "main"

IsTablesRun == IsMain /\ Len(last.args) = 3 /\ last.args[2] = DbPath /\ last.args[3] = ".tables"

\* the tbl_name of the rows of page 1 whose type column is "table"
TableTypeNames ==
    {file[1].cells[i].cols[3].val :
        i \in {j \in 1..Len(file[1].cells) : file[1].cells[j].cols[1].val = "table"}}

\* C22: .tables prints one line holding, space-separated, in ascending
\* order and each once, the tbl_name of exactly the rows of page 1 whose
\* type is "table".
C22_TablesListsTableRowsOnly ==
    IsTablesRun
    => /\ last.r.kind = "Ok"
       /\ \E names \in [1..Cardinality(TableTypeNames) -> TableTypeNames] :
             /\ \A i, j \in DOMAIN names : i < j => StrLt(names[i], names[j])
             /\ last.stdout = <<join(names, " ")>>

\* C23: a run without the database path and the command exits with code 1,
\* a run with the path but without the command exits with code 2, and
\* neither run opens or reads a file.
C23_MissingArgumentExitCodes ==
    (IsMain /\ Len(last.args) <= 2)
    => /\ last.code = (IF Len(last.args) <= 1 THEN 1 ELSE 2)
       /\ ~last.opened
       /\ last.io = <<>>

\* The last call was the first on its handle and answered WHERE c = 'q'
\* through the index, on a table whose root is an interior page
IsFirstIndexLookup ==
    /\ SingleSelect /\ last.n = 1
    /\ layout.icap > 0
    /\ IsIndexedEquality(last.stmts[1].where_clause)
    /\ last.r.kind = "Ok"
    /\ file[StoredTableRoot].tag = TABLE_INTERIOR_PAGE_ID

WasRead(page_num) == page_num \in DOMAIN db.io

StoredIndexRoot == file[1].cells[2].cols[4].val

\* The last call was the first on its handle and searched WHERE c = 'q' in
\* an index whose root is an interior page
IsFirstIndexDescent ==
    /\ SingleSelect /\ last.n = 1
    /\ layout.icap > 0
    /\ IsIndexedEquality(last.stmts[1].where_clause)
    /\ last.r.kind \in {"Ok", "Err"}
    /\ file[StoredIndexRoot].tag = INDEX_INTERIOR_PAGE_ID

IsCountScan ==
    /\ SingleSelect
    /\ layout.icap = 0
    /\ last.stmts[1].columns = <<FunctionCall(Identifier("count"), <<Wildcard>>)>>
    /\ has_query_value(last.stmts[1].where_clause)
    /\ last.stmts[1].where_clause.x.left \in {Identifier("c"), Identifier("d")}

\* The rows of the j-th leaf page of t that satisfy the WHERE clause of the
\* last statement
MatchingRowsOfLeaf(j) ==
    LET w == last.stmts[1].where_clause.x
    IN {i \in ((j - 1) * layout.cap + 1)..Min(j * layout.cap, Len(layout.rows)) :
           (IF w.left.name = "c" THEN layout.rows[i].c ELSE layout.rows[i].d) = w.right.s}

ShownValue(name, rid) ==
    CASE name = "id" -> IntToString(rid)
      [] name = "c" -> layout.rows[rid].c
      [] name = "d" -> layout.rows[rid].d
      [] OTHER -> "NULL"

C28_CachedPageReadOnce ==
    [][/\ \A p \in DOMAIN db.pages :
             /\ p \in DOMAIN db'.pages
             /\ db'.pages[p] = db.pages[p]
             /\ db'.io[p] = db.io[p]
       /\ \A p \in DOMAIN db'.pages : db'.io[p] = 1]_vars

\* A second call on the handle answered rows from pages the first call had
\* cached
C28_Witness ==
    /\ IsExecute /\ last.n = 2
    /\ last.r.kind = "Ok" /\ Len(last.r.v) = 1 /\ Len(last.r.v[1]) > 1
    /\ Cardinality(DOMAIN db.pages) > 3
    /\ \A p \in DOMAIN db.pages : db.io[p] = 1

\* C29: scan_tokens terminates on every input: each turn of its loop moves
\* the cursor forward by at least one character and never past the end of
\* the input, the call returns, and the list it returns holds exactly one
\* EOF token, its last element.
C29_ScannerTerminatesWithOneEof ==
    /\ [][/\ alive' => fout'.current >= fout.current + 1
          /\ fout'.current <= Len(fin.sql)]_vars
    /\ <>(~alive)
    /\ [](~alive => /\ returned # <<>>
                    /\ returned[Len(returned)].token_type = "EOF"
                    /\ Cardinality({i \in 1..Len(returned) :
                                       returned[i].token_type = "EOF"}) = 1)

\* scan_tokens has returned from a text that ends inside a string
C29_Witness ==
    /\ ~alive /\ fin # None /\ fin.fn = "Scanner" /\ fin.sql = "SELECT 'x"
    /\ Len(returned) = 2

====
